---- MODULE Spec2Model ----
(***************************************************************************)
(* A model of the storage and concurrency core of MyBustub: the LRU-K      *)
(* replacer, the buffer pool manager instance, the B+tree index with its   *)
(* iterator, and the lock manager.  Each subsystem has its own             *)
(* specification (SpecRep, SpecBPM, SpecTree, SpecLM) over the variables   *)
(* that hold its state; a specification leaves the other subsystems'       *)
(* variables unchanged.                                                    *)
(***************************************************************************)
EXTENDS Integers, Sequences, FiniteSets, TLC

VARIABLES
  replacer,   \* the LRUKReplacer object (lists, flags, counters)
  rep_ret,    \* what the last replacer call did and returned
  rep_ghost,  \* per frame, since it was last untracked: time of the last
              \* access, number of accesses
  bpm,        \* the BufferPoolManagerInstance object with its disk
  bpm_ret,    \* what the last buffer pool call did and returned
  bpm_rt,     \* progress of one new_page/write/unpin/flush/fetch round trip
  tree,       \* the BPlusTree object and the pages of its nodes
  tree_ret,   \* what the last tree call did and returned
  present,    \* the pairs that are in the tree: key -> value, for the keys
              \* inserted and not removed since
  tree_ops,   \* number of Insert and Remove calls made on the tree
  lm,         \* the lock manager: the table and row lock maps
  txns,       \* per transaction: state, isolation level, lock sets
  lm_pc,      \* per transaction: where its thread is inside a lock manager call
  lm_ret,     \* what the last lock manager step returned
  lm_calls,   \* lock manager calls begun so far
  scen,       \* a scripted run of the replacer: the calls to make, how many
              \* were made, the frames the Evict calls returned
  det,        \* one pass of the deadlock detector over a waits-for graph
  prog,       \* per transaction of a scripted run of the lock manager: the
              \* calls its thread has still to make, the results of those made
  conc        \* two threads that call the tree at the same time: the tree they
              \* started from, and per thread its call and where it is in it

(***************************************************************************)
(* Bounds of the model.                                                    *)
(***************************************************************************)
NumFrames == 2   \* replacer_size_ of the stand-alone replacer
MaxK == 3        \* k_ ranges over 1..MaxK
MaxTime == 4     \* record_access calls in one behaviour (current_timestamp_)
MaxPool == 2     \* pool_size_ ranges over 1..MaxPool
MaxPoolK == 2    \* replacer_k of the buffer pool ranges over 1..MaxPoolK
MaxPages == 2    \* page ids handed out by AllocatePage in one behaviour
MaxByte == 1     \* page contents are 0 (zeroed memory) and 1..MaxByte
MaxKey == 2      \* tree keys are MinKey..MaxKey
MaxVal == 1      \* tree values are 1..MaxVal
MaxLeaf == 3     \* leaf_max_size_ ranges over 2..MaxLeaf
MaxInternal == 3 \* internal_max_size_
MaxTreePages == 8 \* pages one tree allocates in one behaviour
MaxTreeOps == 6  \* Insert and Remove calls on the tree in one behaviour
MaxTxn == 2      \* transactions, each on a thread of its own
MaxTables == 1   \* table oids
MaxRows == 1     \* row ids
MaxLMCalls == 6  \* lock manager calls in one behaviour
MaxGraph == 3    \* transactions of a waits-for graph
MaxSeqOps == 2   \* calls on the tree before the two concurrent calls
MaxRunCalls == 9 \* lock manager calls in one scripted run

NoFrame == 0 - 1

(***************************************************************************)
(* Sequence helpers (std::list operations).                                *)
(***************************************************************************)
RemoveAt(s, i) == SubSeq(s, 1, i - 1) \o SubSeq(s, i + 1, Len(s))

InsertAt(s, i, e) == SubSeq(s, 1, i - 1) \o <<e>> \o SubSeq(s, i, Len(s))

\* position of the entry of frame f in a list of <<frame, second>> pairs, 0 if none
PosOf(s, f) ==
  IF \E i \in 1..Len(s) : s[i][1] = f
    THEN CHOOSE i \in 1..Len(s) : s[i][1] = f
    ELSE 0

(***************************************************************************)
(* LRUKReplacer.  history and buffer are the std::list objects, front at   *)
(* index 1; history_map_ and buffer_map_ hold an iterator for exactly the  *)
(* frames in the respective list, so membership in a map is membership in  *)
(* the list.  non_evictale maps a tracked frame to TRUE when it is         *)
(* evictable.  curr_size is the size_t counter; it is kept as an integer,  *)
(* the stored value being its residue modulo 2^64.                         *)
(***************************************************************************)
NewReplacer(num_frames, k) ==
  [ replacer_size |-> num_frames, k |-> k,
    history |-> << >>, buffer |-> << >>,
    non_evictale |-> << >>,          \* a function with domain the tracked frames
    curr_size |-> 0, current_timestamp |-> 0 ]

Tracked(r) == DOMAIN r.non_evictale

InHistory(r, f) == PosOf(r.history, f) # 0

InBuffer(r, f) == PosOf(r.buffer, f) # 0

\* a walk from the front of the list instead of the back
VictimFromFront(s, ne) ==
  IF \E i \in 1..Len(s) : ne[s[i][1]]
    THEN LET i == CHOOSE j \in 1..Len(s) :
                    ne[s[j][1]] /\ \A l \in 1..(j-1) : ~ne[s[l][1]]
         IN s[i][1]
    ELSE NoFrame

\* the frame Evict returns, NoFrame when it returns false: the history list is
\* walked from the back, then the buffer list from the back
VictimIn(s, ne) ==
  IF \E i \in 1..Len(s) : ne[s[i][1]]
    THEN LET i == CHOOSE j \in 1..Len(s) :
                    ne[s[j][1]] /\ \A l \in (j+1)..Len(s) : ~ne[s[l][1]]
         IN s[i][1]
    ELSE NoFrame

EvictVictim(r) ==
  IF VictimIn(r.history, r.non_evictale) # NoFrame
    THEN VictimIn(r.history, r.non_evictale)
    ELSE VictimIn(r.buffer, r.non_evictale)

Forget(ne, f) == [g \in (DOMAIN ne) \ {f} |-> ne[g]]

Evict(r) ==
  LET v == EvictVictim(r) IN
  IF v = NoFrame THEN r
  ELSE IF InHistory(r, v)
    THEN [r EXCEPT !.non_evictale = Forget(@, v),
                   !.history = RemoveAt(@, PosOf(@, v)),
                   !.curr_size = @ - 1]
    ELSE [r EXCEPT !.non_evictale = Forget(@, v),
                   !.buffer = RemoveAt(@, PosOf(@, v)),
                   !.curr_size = @ - 1]

\* RecordAccess throws for frame_id > replacer_size_
RecordAccessThrows(r, f) == f > r.replacer_size

RecordAccess(r, f) ==
  IF RecordAccessThrows(r, f) THEN r
  ELSE
    LET ts == r.current_timestamp + 1 IN
    IF InBuffer(r, f) THEN
      [r EXCEPT !.current_timestamp = ts,
                !.buffer = <<(<<f, ts>>)>> \o RemoveAt(@, PosOf(@, f))]
    ELSE IF InHistory(r, f) THEN
      LET i == PosOf(r.history, f)
          c == r.history[i][2] + 1
      IN IF c >= r.k
           THEN \* the list node is spliced to the front of buffer_
                [r EXCEPT !.current_timestamp = ts,
                          !.history = RemoveAt(@, i),
                          !.buffer = <<(<<f, c + 1>>)>> \o @]
           ELSE [r EXCEPT !.current_timestamp = ts,
                          !.history[i] = <<f, c>>]
    ELSE
      [r EXCEPT !.current_timestamp = ts,
                !.history = <<(<<f, 1>>)>> \o @,
                !.non_evictale = [g \in (DOMAIN @) \cup {f} |->
                                     IF g = f THEN TRUE ELSE @[g]],
                !.curr_size = @ + 1]

\* SetEvictable asserts that the frame is tracked
SetEvictableAsserts(r, f) == f \in Tracked(r)

SetEvictable(r, f, set_evictable) ==
  [r EXCEPT !.curr_size =
               IF set_evictable /\ ~r.non_evictale[f] THEN @ + 1
               ELSE IF ~set_evictable /\ r.non_evictale[f] THEN @ - 1
               ELSE @,
            !.non_evictale[f] = set_evictable]

RemoveThrows(r, f) == f > r.replacer_size

Remove(r, f) ==
  IF RemoveThrows(r, f) \/ f \notin Tracked(r) THEN r
  ELSE IF InBuffer(r, f) THEN
    [r EXCEPT !.non_evictale = Forget(@, f),
              !.buffer = RemoveAt(@, PosOf(@, f)),
              !.curr_size = @ - 1]
  ELSE IF InHistory(r, f) THEN
    [r EXCEPT !.non_evictale = Forget(@, f),
              !.history = RemoveAt(@, PosOf(@, f)),
              !.curr_size = @ - 1]
  ELSE r

Size(r) == r.curr_size

(***************************************************************************)
(* BufferPoolManagerInstance.  page_table is the ExtendibleHashTable       *)
(* <page_id_t, frame_id_t>, kept as the map it implements.  A page's data  *)
(* is one value standing for its bytes, Zero for zeroed memory.  disk is   *)
(* the content the disk manager holds, page id by page id.                 *)
(***************************************************************************)
INVALID_PAGE_ID == 0 - 1

Zero == 0

Bytes == 1..MaxByte

PageIds == 0..(MaxPages - 1)

TableFind(t, k) == k \in DOMAIN t

TableInsert(t, k, v) == [x \in (DOMAIN t) \cup {k} |-> IF x = k THEN v ELSE t[x]]

TableRemove(t, k) == [x \in (DOMAIN t) \ {k} |-> t[x]]

\* the disk provider: a page that was never written reads as zeroes, and
\* nothing is stored under the invalid page id
DiskWrite(d, page_id, data) ==
  IF page_id = INVALID_PAGE_ID THEN d ELSE TableInsert(d, page_id, data)

DiskRead(d, page_id) == IF page_id \in DOMAIN d THEN d[page_id] ELSE Zero

NewPage ==
  [page_id |-> INVALID_PAGE_ID, pin_count |-> 0, is_dirty |-> FALSE, data |-> Zero]

NewBPM(pool_size, replacer_k) ==
  [ pool_size |-> pool_size,
    pages |-> [f \in 0..(pool_size - 1) |-> NewPage],
    page_table |-> << >>,
    replacer |-> NewReplacer(pool_size, replacer_k),
    free_list |-> [i \in 1..pool_size |-> i - 1],
    next_page_id |-> 0,
    disk |-> << >> ]

\* GetAvailableFrame: <<found, frame, pool after the call>>
GetAvailableFrame(b) ==
  IF b.free_list # << >>
    THEN [ok |-> TRUE, fid |-> Head(b.free_list),
          b |-> [b EXCEPT !.free_list = Tail(@)]]
  ELSE IF EvictVictim(b.replacer) # NoFrame
    THEN LET fid == EvictVictim(b.replacer)
             pg == b.pages[fid]
         IN [ok |-> TRUE, fid |-> fid,
             b |-> [b EXCEPT
                      !.replacer = Evict(@),
                      !.disk = IF pg.is_dirty
                                 THEN DiskWrite(@, pg.page_id, pg.data) ELSE @,
                      !.page_table = TableRemove(@, pg.page_id),
                      !.pages[fid] = [@ EXCEPT !.is_dirty = FALSE, !.data = Zero]]]
  ELSE [ok |-> FALSE, fid |-> NoFrame, b |-> b]

\* RecordAccess alone: a frame that becomes tracked is left evictable
PinFrameLeftEvictable(r, frame_id) == RecordAccess(r, frame_id)

\* replacer_->RecordAccess(frame_id); replacer_->SetEvictable(frame_id, false)
PinFrame(r, frame_id) == SetEvictable(RecordAccess(r, frame_id), frame_id, FALSE)

\* NewPgImp: frame is the frame of the returned page, NoFrame for nullptr
NewPgImp(b) ==
  LET g == GetAvailableFrame(b)
      page_id == g.b.next_page_id
  IN IF g.ok
       THEN [frame |-> g.fid, page_id |-> page_id,
             b |-> [g.b EXCEPT
                      !.next_page_id = @ + 1,
                      !.page_table = TableInsert(@, page_id, g.fid),
                      !.pages[g.fid] = [@ EXCEPT !.page_id = page_id,
                                                 !.pin_count = 1],
                      !.replacer = PinFrame(@, g.fid)]]
       ELSE [frame |-> NoFrame, page_id |-> INVALID_PAGE_ID, b |-> b]

FetchPgImp(b, page_id) ==
  IF TableFind(b.page_table, page_id)
    THEN LET frame_id == b.page_table[page_id]
             pg == b.pages[frame_id]
             d == IF pg.is_dirty THEN DiskWrite(b.disk, pg.page_id, pg.data)
                                 ELSE b.disk
         IN [frame |-> frame_id,
             b |-> [b EXCEPT
                      !.disk = d,
                      !.replacer = PinFrame(@, frame_id),
                      !.pages[frame_id] =
                          [@ EXCEPT !.data = DiskRead(d, pg.page_id),
                                    !.pin_count = 1]]]
    ELSE LET g == GetAvailableFrame(b) IN
         IF g.ok
           THEN [frame |-> g.fid,
                 b |-> [g.b EXCEPT
                          !.page_table = TableInsert(@, page_id, g.fid),
                          !.replacer = PinFrame(@, g.fid),
                          !.pages[g.fid] =
                              [@ EXCEPT !.data = DiskRead(g.b.disk,
                                                         g.b.pages[g.fid].page_id),
                                        !.pin_count = 1]]]
           ELSE [frame |-> NoFrame, b |-> b]

UnpinPgImp(b, page_id, is_dirty) ==
  IF TableFind(b.page_table, page_id)
    THEN LET frame_id == b.page_table[page_id] IN
         IF b.pages[frame_id].pin_count <= 0
           THEN [ok |-> FALSE, b |-> b]
         ELSE IF b.pages[frame_id].pin_count - 1 = 0
           THEN [ok |-> TRUE,
                 b |-> [b EXCEPT
                          !.replacer = SetEvictable(@, frame_id, TRUE),
                          !.pages[frame_id] = [@ EXCEPT !.pin_count = 0,
                                                        !.is_dirty = is_dirty]]]
         ELSE [ok |-> TRUE, b |-> [b EXCEPT !.pages[frame_id].pin_count = @ - 1]]
    ELSE [ok |-> FALSE, b |-> b]

FlushPgImp(b, page_id) ==
  IF TableFind(b.page_table, page_id)
    THEN LET frame_id == b.page_table[page_id]
             pg == b.pages[frame_id]
         IN [ok |-> TRUE,
             b |-> [b EXCEPT !.disk = DiskWrite(@, pg.page_id, pg.data),
                             !.pages[frame_id].is_dirty = FALSE]]
    ELSE [ok |-> FALSE, b |-> b]

\* the loop of FlushAllPgsImp from i on
RECURSIVE FlushAllFrom(_, _)
FlushAllFrom(b, i) ==
  IF i >= b.pool_size THEN b
  ELSE IF TableFind(b.page_table, i) /\ b.pages[b.page_table[i]].is_dirty
    THEN LET frame_id == b.page_table[i]
             pg == b.pages[frame_id]
         IN FlushAllFrom([b EXCEPT !.disk = DiskWrite(@, pg.page_id, pg.data),
                                   !.pages[frame_id].is_dirty = FALSE], i + 1)
  ELSE FlushAllFrom(b, i + 1)

FlushAllPgsImp(b) == FlushAllFrom(b, 0)

DeletePgImp(b, page_id) ==
  IF TableFind(b.page_table, page_id)
    THEN LET frame_id == b.page_table[page_id] IN
         IF b.pages[frame_id].pin_count > 0
           THEN [ok |-> FALSE, b |-> b]
           ELSE [ok |-> TRUE,
                 b |-> [b EXCEPT !.page_table = TableRemove(@, page_id),
                                 !.free_list = Append(@, frame_id)]]
    ELSE [ok |-> TRUE, b |-> b]

(***************************************************************************)
(* B+tree pages.  The tree runs over a buffer pool that always has a free  *)
(* frame and returns the bytes last written to a page, so a page is the    *)
(* node it holds: tree.pages maps a page id to its node.  A leaf's array   *)
(* is the memory of array_: the slots at and after size keep what was      *)
(* last stored in them, ZeroSlot in a slot never written (a new page is    *)
(* zeroed).  An internal node's array holds its size entries               *)
(* <<key, child page id>>, the key of the first being unused.              *)
(***************************************************************************)
MinKey == 0 - 1

TreeKeys == MinKey..MaxKey

TreeVals == 1..MaxVal

ZeroSlot == <<0, 0>>

MinOf(S) == CHOOSE x \in S : \A y \in S : x <= y

MaxOf(S) == CHOOSE x \in S : \A y \in S : x >= y

\* the elements of a set of integers in ascending order
RECURSIVE SortedSeq(_)
SortedSeq(S) == IF S = {} THEN << >> ELSE <<MinOf(S)>> \o SortedSeq(S \ {MinOf(S)})

\* B_PLUS_TREE_LEAF_PAGE_TYPE::Init on the zeroed memory of a new page
LeafInit(page_id, parent_id, max_size) ==
  [ is_leaf |-> TRUE, page_id |-> page_id, parent |-> parent_id,
    size |-> 0, max_size |-> max_size, next |-> INVALID_PAGE_ID,
    array |-> [i \in 1..(max_size + 1) |-> ZeroSlot] ]

InternalInit(page_id, parent_id, max_size) ==
  [ is_leaf |-> FALSE, page_id |-> page_id, parent |-> parent_id,
    size |-> 0, max_size |-> max_size, next |-> INVALID_PAGE_ID,
    array |-> << >> ]

\* BPlusTreePage::GetMinSize and IsRootPage
GetMinSize(n) == (n.max_size + 1) \div 2

IsRootPage(n) == n.parent = INVALID_PAGE_ID

\* array_[index].first and array_[index].second, index counted from 0
KeyAt(n, index) == n.array[index + 1][1]

ValueAt(n, index) == n.array[index + 1][2]

\* std::lower_bound over array_[0 .. size)
KeyInd(n, K) ==
  LET ge == {i \in 0..(n.size - 1) : KeyAt(n, i) >= K}
  IN IF ge = {} THEN n.size ELSE MinOf(ge)

\* LookUp compares the slot the binary search ends at, which is array_[size]
\* when every key of the leaf is smaller than K
LookUp(n, K) ==
  LET r == KeyInd(n, K)
  IN [found |-> KeyAt(n, r) = K, value |-> ValueAt(n, r)]

LeafInsert(n, K, V) ==
  LET dis == KeyInd(n, K) IN
  IF dis = n.size
    THEN [n EXCEPT !.array[dis + 1] = <<K, V>>, !.size = @ + 1]
  ELSE IF KeyAt(n, dis) = K THEN n
  ELSE [n EXCEPT
          !.array = [i \in 1..Len(n.array) |->
                       IF i < dis + 1 THEN n.array[i]
                       ELSE IF i = dis + 1 THEN <<K, V>>
                       ELSE IF i <= n.size + 1 THEN n.array[i - 1]
                       ELSE n.array[i]],
          !.size = @ + 1]

\* std::copy(items, items + size, array_ + GetSize()); IncreaseSize(size)
CopyN(n, items) ==
  [n EXCEPT !.array = [i \in 1..Len(n.array) |->
                         IF i > n.size /\ i <= n.size + Len(items)
                           THEN items[i - n.size] ELSE n.array[i]],
            !.size = @ + Len(items)]

\* MoveHalfTo: <<the leaf, the recipient>> after the call
LeafMoveHalfTo(n, recip) ==
  LET split_index == GetMinSize(n)
  IN << [n EXCEPT !.size = split_index],
        CopyN(recip, SubSeq(n.array, split_index + 1, n.max_size)) >>

\* B_PLUS_TREE_INTERNAL_PAGE_TYPE: LookUp descends to the child of the last
\* entry whose key is <= key, the first entry standing for every smaller key
InternalLookUp(n, key) ==
  LET le == {i \in 1..(n.size - 1) : KeyAt(n, i) <= key}
  IN ValueAt(n, IF le = {} THEN 0 ELSE MaxOf(le))

ValueIndex(n, value) ==
  LET at == {i \in 0..(n.size - 1) : ValueAt(n, i) = value}
  IN IF at = {} THEN n.size ELSE MinOf(at)

SetKeyAt(n, index, key) == [n EXCEPT !.array[index + 1][1] = key]

PopulateNewRoot(n, old_value, new_key, new_value) ==
  [n EXCEPT !.array = << <<0, old_value>>, <<new_key, new_value>> >>, !.size = 2]

InsertNodeAt(n, old_value, new_key, new_value) ==
  [n EXCEPT !.array = InsertAt(@, ValueIndex(n, old_value) + 2,
                               <<new_key, new_value>>),
            !.size = @ + 1]

InternalRemove(n, index) ==
  [n EXCEPT !.array = RemoveAt(@, index + 1), !.size = @ - 1]

\* SetParentPageId on the pages of the children named in entries
Reparent(pages, entries, parent_id) ==
  [p \in DOMAIN pages |->
     IF \E i \in 1..Len(entries) : entries[i][2] = p
       THEN [pages[p] EXCEPT !.parent = parent_id] ELSE pages[p]]

\* internal MoveHalfTo: the entries from GetMinSize() on go to the recipient
InternalMoveHalfTo(n, recip) ==
  LET start == GetMinSize(n)
  IN << [n EXCEPT !.array = SubSeq(@, 1, start), !.size = start],
        [recip EXCEPT !.array = @ \o SubSeq(n.array, start + 1, n.size),
                      !.size = @ + n.size - start] >>

(***************************************************************************)
(* BPlusTree.                                                              *)
(***************************************************************************)
NewTree(leaf_max_size, internal_max_size) ==
  [ root_page_id |-> INVALID_PAGE_ID, pages |-> << >>, next_page_id |-> 1,
    leaf_max_size |-> leaf_max_size, internal_max_size |-> internal_max_size ]

IsEmpty(t) == t.root_page_id = INVALID_PAGE_ID

SetPage(t, n) == [t EXCEPT !.pages = TableInsert(@, n.page_id, n)]

RECURSIVE Descend(_, _, _)
Descend(t, page_id, key) ==
  IF t.pages[page_id].is_leaf THEN page_id
  ELSE Descend(t, InternalLookUp(t.pages[page_id], key), key)

\* the page id of the leaf GetLeafPage returns
GetLeafPage(t, key) == Descend(t, t.root_page_id, key)

GetValue(t, key) == LookUp(t.pages[GetLeafPage(t, key)], key)

StartNewTree(t, key, value) ==
  LET page_id == t.next_page_id
      root_page == LeafInsert(LeafInit(page_id, INVALID_PAGE_ID, t.leaf_max_size),
                              key, value)
  IN [SetPage(t, root_page) EXCEPT !.root_page_id = page_id,
                                   !.next_page_id = @ + 1]

RECURSIVE InsertIntoParent(_, _, _, _)
InsertIntoParent(t, old_id, key, new_id) ==
  LET old_node == t.pages[old_id] IN
  IF IsRootPage(old_node)
    THEN LET root_id == t.next_page_id
             new_root == PopulateNewRoot(
                           InternalInit(root_id, INVALID_PAGE_ID,
                                        t.internal_max_size),
                           old_id, key, new_id)
         IN [t EXCEPT !.root_page_id = root_id,
                      !.next_page_id = @ + 1,
                      !.pages = TableInsert(
                                  Reparent(@, new_root.array, root_id),
                                  root_id, new_root)]
  ELSE LET parent_node == t.pages[old_node.parent] IN
    IF parent_node.size < t.internal_max_size
      THEN SetPage(t, InsertNodeAt(parent_node, old_id, key, new_id))
    ELSE \* the parent is full: insert into a copy, split the copy, copy back
      LET copy_parent == InsertNodeAt(parent_node, old_id, key, new_id)
          split_id == t.next_page_id
          halves == InternalMoveHalfTo(
                      copy_parent,
                      InternalInit(split_id, copy_parent.parent,
                                   t.internal_max_size))
          splited_parent == halves[2]
          new_key == KeyAt(splited_parent, 0)
          t1 == [t EXCEPT
                   !.next_page_id = @ + 1,
                   !.pages = TableInsert(
                               TableInsert(
                                 Reparent(@, splited_parent.array, split_id),
                                 split_id, splited_parent),
                               parent_node.page_id, halves[1])]
      IN InsertIntoParent(t1, parent_node.page_id, new_key, split_id)

\* Split of a leaf and the linking of the new leaf: the tree and the new page id
SplitLeaf(t, page_id) ==
  LET page == t.pages[page_id]
      new_id == t.next_page_id
      halves == LeafMoveHalfTo(page, LeafInit(new_id, page.parent, t.leaf_max_size))
      new_node == [halves[2] EXCEPT !.next = page.next]
      old_node == [halves[1] EXCEPT !.next = new_id]
  IN [SetPage(SetPage(t, old_node), new_node) EXCEPT !.next_page_id = @ + 1]

\* InsertIntoLeaf: the returned flag and the tree after the call
\* InsertIntoLeaf from the leaf page GetLeafPage has returned
InsertIntoLeafAt(t, leaf_id, key, value) ==
  LET page == t.pages[leaf_id]
  IN IF LookUp(page, key).found
       THEN [ok |-> FALSE, t |-> t]
     ELSE LET page1 == LeafInsert(page, key, value)
              t1 == SetPage(t, page1)
          IN IF page1.size >= page1.max_size
               THEN LET t2 == SplitLeaf(t1, leaf_id)
                        new_id == t1.next_page_id
                    IN [ok |-> TRUE,
                        t |-> InsertIntoParent(t2, leaf_id,
                                               KeyAt(t2.pages[new_id], 0), new_id)]
               ELSE [ok |-> TRUE, t |-> t1]

InsertIntoLeaf(t, key, value) ==
  InsertIntoLeafAt(t, GetLeafPage(t, key), key, value)

Insert(t, key, value) ==
  IF IsEmpty(t) THEN [ok |-> TRUE, t |-> StartNewTree(t, key, value)]
  ELSE InsertIntoLeaf(t, key, value)

\* leaf Remove: the entries after the key move down by one, the slot that
\* was the last keeps its content
LeafRemove(n, key) ==
  LET index == KeyInd(n, key) IN
  IF index < n.size /\ KeyAt(n, index) = key
    THEN [ok |-> TRUE,
          n |-> [n EXCEPT
                   !.array = [i \in 1..Len(n.array) |->
                                IF i > index /\ i < n.size THEN n.array[i + 1]
                                ELSE n.array[i]],
                   !.size = @ - 1]]
    ELSE [ok |-> FALSE, n |-> n]

\* leaf MoveAllTo, MoveLastToFrontOf, MoveFirstToEndOf: <<the leaf, the
\* recipient>> after the call
LeafMoveAllTo(n, recip) ==
  << [n EXCEPT !.size = 0],
     [CopyN(recip, SubSeq(n.array, 1, n.size)) EXCEPT !.next = n.next] >>

LeafMoveLastToFrontOf(n, recip) ==
  << [n EXCEPT !.size = @ - 1],
     [recip EXCEPT
        !.array = [i \in 1..Len(recip.array) |->
                     IF i = 1 THEN n.array[n.size]
                     ELSE IF i <= recip.size + 1 THEN recip.array[i - 1]
                     ELSE recip.array[i]],
        !.size = @ + 1] >>

LeafMoveFirstToEndOf(n, recip) ==
  << LeafRemove(n, KeyAt(n, 0)).n, CopyN(recip, <<n.array[1]>>) >>

\* internal MoveAllTo, MoveLastToFrontOf, MoveFirstToEndOf with the middle
\* key taken from the parent
InternalMoveAllTo(n, recip, middle_key) ==
  << [n EXCEPT !.array = << >>, !.size = 0],
     [recip EXCEPT !.array = @ \o SetKeyAt(n, 0, middle_key).array,
                   !.size = @ + n.size] >>

InternalMoveLastToFrontOf(n, recip, middle_key) ==
  << InternalRemove(n, n.size - 1),
     [recip EXCEPT !.array = <<n.array[n.size]>> \o SetKeyAt(recip, 0, middle_key).array,
                   !.size = @ + 1] >>

InternalMoveFirstToEndOf(n, recip, middle_key) ==
  << InternalRemove(n, 0),
     [recip EXCEPT !.array = @ \o << <<middle_key, ValueAt(n, 0)>> >>,
                   !.size = @ + 1] >>

\* the pages after a move between node and a sibling; moved children of an
\* internal recipient get the recipient as parent
AfterMove(t, pair) ==
  LET pages1 == TableInsert(TableInsert(t.pages, pair[1].page_id, pair[1]),
                            pair[2].page_id, pair[2])
  IN [t EXCEPT !.pages = IF pair[2].is_leaf THEN pages1
                         ELSE Reparent(pages1, pair[2].array, pair[2].page_id)]

RECURSIVE CoalesceOrRedistribute(_, _)
CoalesceOrRedistribute(t, node_id) ==
  LET node == t.pages[node_id] IN
  IF IsRootPage(node) THEN
    IF node.is_leaf /\ node.size = 0
      THEN [t EXCEPT !.root_page_id = INVALID_PAGE_ID]
    ELSE IF ~node.is_leaf /\ node.size = 1
      THEN [t EXCEPT !.root_page_id = ValueAt(node, 0),
                     !.pages[ValueAt(node, 0)].parent = INVALID_PAGE_ID]
    ELSE t
  ELSE
    LET parent_node == t.pages[node.parent]
        node_index == ValueIndex(parent_node, node_id)
        has_left == node_index > 0
        has_right == node_index # parent_node.size - 1
        left_bro == t.pages[ValueAt(parent_node, node_index - 1)]
        right_bro == t.pages[ValueAt(parent_node, node_index + 1)]
    IN
    IF has_left /\ left_bro.size > GetMinSize(left_bro) THEN
      LET pair == IF node.is_leaf
                    THEN LeafMoveLastToFrontOf(left_bro, node)
                    ELSE InternalMoveLastToFrontOf(left_bro, node,
                                                   KeyAt(parent_node, node_index))
      IN SetPage(AfterMove(t, pair),
                 SetKeyAt(parent_node, node_index, KeyAt(pair[2], 0)))
    ELSE IF ~has_left /\ has_right /\ right_bro.size > GetMinSize(right_bro) THEN
      LET pair == IF node.is_leaf
                    THEN LeafMoveFirstToEndOf(right_bro, node)
                    ELSE InternalMoveFirstToEndOf(right_bro, node,
                                                  KeyAt(parent_node, node_index + 1))
      IN SetPage(AfterMove(t, pair),
                 SetKeyAt(parent_node, node_index + 1, KeyAt(pair[1], 0)))
    ELSE IF has_left THEN
      LET pair == IF node.is_leaf
                    THEN LeafMoveAllTo(node, left_bro)
                    ELSE InternalMoveAllTo(node, left_bro,
                                           KeyAt(parent_node, node_index - 1))
      IN CoalesceOrRedistribute(
           SetPage(AfterMove(t, pair), InternalRemove(parent_node, node_index)),
           parent_node.page_id)
    ELSE IF has_right THEN
      LET pair == IF node.is_leaf
                    THEN LeafMoveAllTo(right_bro, node)
                    ELSE InternalMoveAllTo(right_bro, node,
                                           KeyAt(parent_node, node_index))
      IN CoalesceOrRedistribute(
           SetPage(AfterMove(t, pair), InternalRemove(parent_node, node_index + 1)),
           parent_node.page_id)
    ELSE t

\* Remove from the leaf page GetLeafPage has returned
RemoveAtLeaf(t, leaf_id, key) ==
  LET r == LeafRemove(t.pages[leaf_id], key)
  IN IF ~r.ok THEN t
     ELSE IF r.n.size >= GetMinSize(r.n) THEN SetPage(t, r.n)
     ELSE CoalesceOrRedistribute(SetPage(t, r.n), leaf_id)

TreeRemove(t, key) ==
  IF IsEmpty(t) THEN t ELSE RemoveAtLeaf(t, GetLeafPage(t, key), key)

(***************************************************************************)
(* Pins.  A call's pins are, for every page id, the number of FetchPage    *)
(* and NewPage calls it made on the page minus the number of its UnpinPage *)
(* calls on it.  Every UnpinPage of the tree follows a FetchPage or        *)
(* NewPage of the same page by the same call, so no unpin meets a pin      *)
(* count of zero and the difference is the change of the pin count.  The   *)
(* internal page's moves fetch and unpin each child they re-parent.        *)
(***************************************************************************)
NoPins == [p \in 1..MaxTreePages |-> 0]

FetchPage(pins, page_id) == [pins EXCEPT ![page_id] = @ + 1]

UnpinPage(pins, page_id) == [pins EXCEPT ![page_id] = @ - 1]

\* GetLeafPage fetches every page on the way down and unpins none
RECURSIVE GetLeafPagePins(_, _, _, _)
GetLeafPagePins(t, pins, page_id, key) ==
  IF t.pages[page_id].is_leaf THEN FetchPage(pins, page_id)
  ELSE GetLeafPagePins(t, FetchPage(pins, page_id),
                       InternalLookUp(t.pages[page_id], key), key)

GetValuePins(t, key) ==
  UnpinPage(GetLeafPagePins(t, NoPins, t.root_page_id, key), GetLeafPage(t, key))

\* InsertIntoParent with new_id the page id the next NewPage returns.  A
\* split of the parent changes neither the parent's parent nor the size of
\* the page above it, so t serves every level of the recursion.
RECURSIVE InsertIntoParentPins(_, _, _, _)
InsertIntoParentPins(t, pins, old_id, new_id) ==
  LET old_node == t.pages[old_id] IN
  IF IsRootPage(old_node)
    THEN UnpinPage(FetchPage(pins, new_id), new_id)
  ELSE IF t.pages[old_node.parent].size < t.internal_max_size
    THEN UnpinPage(FetchPage(pins, old_node.parent), old_node.parent)
  ELSE UnpinPage(
         UnpinPage(
           InsertIntoParentPins(t, FetchPage(FetchPage(pins, old_node.parent), new_id),
                                old_node.parent, new_id + 1),
           new_id),
         old_node.parent)

\* Split pins the new leaf, InsertIntoLeaf unpins page only
InsertIntoLeafPins(t, key, value) ==
  LET leaf_id == GetLeafPage(t, key)
      page == t.pages[leaf_id]
      page1 == LeafInsert(page, key, value)
      pins == GetLeafPagePins(t, NoPins, t.root_page_id, key)
  IN IF LookUp(page, key).found THEN UnpinPage(pins, leaf_id)
     ELSE IF page1.size >= page1.max_size
       THEN UnpinPage(
              InsertIntoParentPins(SplitLeaf(SetPage(t, page1), leaf_id),
                                   FetchPage(pins, t.next_page_id),
                                   leaf_id, t.next_page_id + 1),
              leaf_id)
     ELSE UnpinPage(pins, leaf_id)

InsertPins(t, key, value) ==
  IF IsEmpty(t) THEN UnpinPage(FetchPage(NoPins, t.next_page_id), t.next_page_id)
  ELSE InsertIntoLeafPins(t, key, value)

\* CoalesceOrRedistribute: a borrow unpins the sibling and the parent; a
\* merge fetches the sibling a second time and unpins nothing
RECURSIVE CoalescePins(_, _, _)
CoalescePins(t, pins, node_id) ==
  LET node == t.pages[node_id] IN
  IF IsRootPage(node) THEN
    IF ~node.is_leaf /\ node.size = 1
      THEN UnpinPage(FetchPage(pins, ValueAt(node, 0)), ValueAt(node, 0))
    ELSE pins
  ELSE
    LET parent_node == t.pages[node.parent]
        node_index == ValueIndex(parent_node, node_id)
        has_left == node_index > 0
        has_right == node_index # parent_node.size - 1
        left_id == ValueAt(parent_node, node_index - 1)
        right_id == ValueAt(parent_node, node_index + 1)
        left_bro == t.pages[left_id]
        right_bro == t.pages[right_id]
        fetched == FetchPage(pins, node.parent)
    IN
    IF has_left /\ left_bro.size > GetMinSize(left_bro) THEN
      UnpinPage(UnpinPage(FetchPage(fetched, left_id), left_id), node.parent)
    ELSE IF ~has_left /\ has_right /\ right_bro.size > GetMinSize(right_bro) THEN
      UnpinPage(UnpinPage(FetchPage(fetched, right_id), right_id), node.parent)
    ELSE IF has_left THEN
      LET pair == IF node.is_leaf
                    THEN LeafMoveAllTo(node, left_bro)
                    ELSE InternalMoveAllTo(node, left_bro,
                                           KeyAt(parent_node, node_index - 1))
      IN CoalescePins(
           SetPage(AfterMove(t, pair), InternalRemove(parent_node, node_index)),
           FetchPage(FetchPage(fetched, left_id), left_id),
           parent_node.page_id)
    ELSE IF has_right THEN
      LET pair == IF node.is_leaf
                    THEN LeafMoveAllTo(right_bro, node)
                    ELSE InternalMoveAllTo(right_bro, node,
                                           KeyAt(parent_node, node_index))
      IN CoalescePins(
           SetPage(AfterMove(t, pair), InternalRemove(parent_node, node_index + 1)),
           FetchPage(FetchPage(fetched, right_id), right_id),
           parent_node.page_id)
    ELSE fetched

RemovePins(t, key) ==
  IF IsEmpty(t) THEN NoPins
  ELSE LET leaf_id == GetLeafPage(t, key)
           r == LeafRemove(t.pages[leaf_id], key)
           pins == GetLeafPagePins(t, NoPins, t.root_page_id, key)
       IN IF ~r.ok \/ r.n.size >= GetMinSize(r.n) THEN UnpinPage(pins, leaf_id)
          ELSE UnpinPage(CoalescePins(SetPage(t, r.n), pins, leaf_id), leaf_id)

(***************************************************************************)
(* IndexIterator: page is the page id of the leaf it holds, INVALID_PAGE_ID*)
(* for a null page.                                                        *)
(***************************************************************************)
IndexIterator(page, index) == [page |-> page, index |-> index]

\* Begin() descends with a default-constructed key, which is key 0
Begin(t) ==
  IF t.root_page_id = INVALID_PAGE_ID THEN IndexIterator(INVALID_PAGE_ID, 0)
  ELSE IndexIterator(GetLeafPage(t, 0), 0)

\* End() reads the root as an internal page and descends with its last key;
\* when the root is a leaf every key leads to the root itself
End(t) ==
  IF t.root_page_id = INVALID_PAGE_ID THEN IndexIterator(INVALID_PAGE_ID, 0)
  ELSE LET root_node == t.pages[t.root_page_id]
           right_id == IF root_node.is_leaf THEN t.root_page_id
                       ELSE GetLeafPage(t, KeyAt(root_node, root_node.size - 1))
       IN IndexIterator(right_id, t.pages[right_id].size)

\* operator== and operator++
IterEq(a, b) ==
  a.page = INVALID_PAGE_ID \/ (a.page = b.page /\ a.index = b.index)

IterNext(t, it) ==
  LET leaf == t.pages[it.page] IN
  IF leaf.next # INVALID_PAGE_ID /\ it.index = leaf.size - 1
    THEN IndexIterator(leaf.next, 0)
    ELSE IndexIterator(it.page, it.index + 1)

\* for (it = Begin(); it != End(); ++it) collecting (*it).first; overrun when
\* the loop reads past the slots of a leaf or takes more than fuel steps
RECURSIVE ScanFrom(_, _, _, _)
ScanFrom(t, it, end, fuel) ==
  IF IterEq(it, end) THEN [keys |-> << >>, overrun |-> FALSE]
  ELSE IF fuel = 0 \/ it.index + 1 > Len(t.pages[it.page].array)
    THEN [keys |-> << >>, overrun |-> TRUE]
  ELSE LET rest == ScanFrom(t, IterNext(t, it), end, fuel - 1)
       IN [keys |-> <<KeyAt(t.pages[it.page], it.index)>> \o rest.keys,
           overrun |-> rest.overrun]

Scan(t) == ScanFrom(t, Begin(t), End(t), Cardinality(TreeKeys) + 2)

\* Begin(key): the leaf GetLeafPage returns and the index KeyInd gives in it
BeginAt(t, key) ==
  IndexIterator(GetLeafPage(t, key), KeyInd(t.pages[GetLeafPage(t, key)], key))

\* IsEnd
IsEnd(t, it) ==
  t.pages[it.page].next = INVALID_PAGE_ID /\ it.index = t.pages[it.page].size

\* the pins after operator++: the next leaf is fetched, then the current
\* leaf is unpinned
IterNextPins(t, it, pins) ==
  LET leaf == t.pages[it.page] IN
  IF leaf.next # INVALID_PAGE_ID /\ it.index = leaf.size - 1
    THEN UnpinPage(FetchPage(pins, leaf.next), it.page)
    ELSE pins

\* of the leaves, the iterator's leaf is pinned once and no other is pinned
HoldsLeaf(t, it, pins) ==
  \A p \in DOMAIN t.pages :
    t.pages[p].is_leaf => pins[p] = (IF p = it.page THEN 1 ELSE 0)

\* for (; !it.IsEnd(); ++it) collecting (*it).first; held tells whether the
\* iterator held its leaf at every position
RECURSIVE WalkFrom(_, _, _, _)
WalkFrom(t, it, pins, fuel) ==
  IF IsEnd(t, it)
    THEN [keys |-> << >>, overrun |-> FALSE, held |-> HoldsLeaf(t, it, pins)]
  ELSE IF fuel = 0 \/ it.index + 1 > Len(t.pages[it.page].array)
    THEN [keys |-> << >>, overrun |-> TRUE, held |-> HoldsLeaf(t, it, pins)]
  ELSE LET rest == WalkFrom(t, IterNext(t, it), IterNextPins(t, it, pins), fuel - 1)
       IN [keys |-> <<KeyAt(t.pages[it.page], it.index)>> \o rest.keys,
           overrun |-> rest.overrun,
           held |-> HoldsLeaf(t, it, pins) /\ rest.held]

\* the walk of an iterator obtained from Begin()
Walk(t) ==
  WalkFrom(t, Begin(t), GetLeafPagePins(t, NoPins, t.root_page_id, 0),
           Cardinality(TreeKeys) + 2)

(***************************************************************************)
(* The stand-alone replacer: any sequence of its public calls.             *)
(***************************************************************************)
RepFrames == 0..(NumFrames + 1)

NoAccess == [last |-> 0, count |-> 0]

GhostInit == [f \in RepFrames |-> NoAccess]

RepStart(k) ==
  /\ replacer = NewReplacer(NumFrames, k)
  /\ rep_ret = [op |-> "init", frame |-> NoFrame, ok |-> TRUE]
  /\ rep_ghost = GhostInit

RepRecordAccess(f) ==
  /\ replacer.current_timestamp < MaxTime
  /\ replacer' = RecordAccess(replacer, f)
  /\ rep_ret' = [op |-> "RecordAccess", frame |-> f,
                 ok |-> ~RecordAccessThrows(replacer, f)]
  /\ rep_ghost' = IF RecordAccessThrows(replacer, f) THEN rep_ghost
                  ELSE [rep_ghost EXCEPT ![f] =
                          [last |-> replacer.current_timestamp + 1,
                           count |-> @.count + 1]]

RepSetEvictable(f, b) ==
  /\ SetEvictableAsserts(replacer, f)
  /\ replacer' = SetEvictable(replacer, f, b)
  /\ rep_ret' = [op |-> "SetEvictable", frame |-> f, ok |-> TRUE]
  /\ UNCHANGED rep_ghost

RepEvict ==
  /\ replacer' = Evict(replacer)
  /\ rep_ret' = [op |-> "Evict", frame |-> EvictVictim(replacer),
                 ok |-> EvictVictim(replacer) # NoFrame]
  /\ rep_ghost' = IF EvictVictim(replacer) = NoFrame THEN rep_ghost
                  ELSE [rep_ghost EXCEPT ![EvictVictim(replacer)] = NoAccess]

RepRemove(f) ==
  /\ replacer' = Remove(replacer, f)
  /\ rep_ret' = [op |-> "Remove", frame |-> f, ok |-> ~RemoveThrows(replacer, f)]
  /\ rep_ghost' = IF replacer'.non_evictale = replacer.non_evictale THEN rep_ghost
                  ELSE [rep_ghost EXCEPT ![f] = NoAccess]

repvars == <<replacer, rep_ret, rep_ghost>>

(***************************************************************************)
(* The buffer pool: any sequence of its public calls, and writes to the    *)
(* data of a page by a caller that holds a pin on it.  bpm_rt follows one  *)
(* page through new_page, write, unpin_page(dirty), flush_page and         *)
(* fetch_page: page is the page, bytes what was written to it, got what    *)
(* the fetch returned.  Between the flush and the fetch only new_page,     *)
(* fetch_page, unpin_page and writes on other pages keep it going.         *)
(***************************************************************************)
RtNone == [page |-> INVALID_PAGE_ID, bytes |-> Zero, phase |-> "none", got |-> Zero]

RtKeep(rt, page_id, allowed) ==
  IF rt.phase \in {"none", "fetched"} THEN rt
  ELSE IF allowed /\ rt.phase = "flushed" /\ page_id # rt.page THEN rt
  ELSE RtNone

BpmStart(pool_size, k) ==
  /\ bpm = NewBPM(pool_size, k)
  /\ bpm_ret = [op |-> "init", ok |-> TRUE]
  /\ bpm_rt = RtNone

BpmNewPg ==
  /\ bpm.next_page_id < MaxPages
  /\ bpm.replacer.current_timestamp < MaxTime
  /\ LET r == NewPgImp(bpm) IN
       /\ bpm' = r.b
       /\ bpm_ret' = [op |-> "NewPg", ok |-> r.frame # NoFrame]
       /\ bpm_rt' = IF r.frame = NoFrame \/ bpm_rt.phase = "flushed" THEN bpm_rt
                    ELSE [page |-> r.page_id, bytes |-> Zero,
                          phase |-> "new", got |-> Zero]

BpmWrite(page_id, c) ==
  /\ TableFind(bpm.page_table, page_id)
  /\ bpm.pages[bpm.page_table[page_id]].pin_count > 0
  /\ bpm' = [bpm EXCEPT !.pages[bpm.page_table[page_id]].data = c]
  /\ bpm_ret' = [op |-> "Write", ok |-> TRUE]
  /\ bpm_rt' = IF page_id = bpm_rt.page /\ bpm_rt.phase \in {"new", "written"}
                 THEN [bpm_rt EXCEPT !.bytes = c, !.phase = "written"]
                 ELSE RtKeep(bpm_rt, page_id, TRUE)

BpmFetchPg(page_id) ==
  /\ bpm.replacer.current_timestamp < MaxTime
  /\ LET r == FetchPgImp(bpm, page_id) IN
       /\ bpm' = r.b
       /\ bpm_ret' = [op |-> "FetchPg", ok |-> r.frame # NoFrame]
       /\ bpm_rt' = IF page_id = bpm_rt.page /\ bpm_rt.phase = "flushed"
                       /\ r.frame # NoFrame
                      THEN [bpm_rt EXCEPT !.phase = "fetched",
                                          !.got = r.b.pages[r.frame].data]
                      ELSE RtKeep(bpm_rt, page_id, TRUE)

BpmUnpinPg(page_id, is_dirty) ==
  LET r == UnpinPgImp(bpm, page_id, is_dirty) IN
    /\ bpm' = r.b
    /\ bpm_ret' = [op |-> "UnpinPg", ok |-> r.ok]
    /\ bpm_rt' = IF page_id = bpm_rt.page /\ bpm_rt.phase = "written"
                    /\ is_dirty /\ r.ok
                   THEN [bpm_rt EXCEPT !.phase = "unpinned"]
                   ELSE RtKeep(bpm_rt, page_id, TRUE)

BpmFlushPg(page_id) ==
  LET r == FlushPgImp(bpm, page_id) IN
    /\ bpm' = r.b
    /\ bpm_ret' = [op |-> "FlushPg", ok |-> r.ok]
    /\ bpm_rt' = IF page_id = bpm_rt.page /\ bpm_rt.phase = "unpinned" /\ r.ok
                   THEN [bpm_rt EXCEPT !.phase = "flushed"]
                   ELSE RtKeep(bpm_rt, page_id, FALSE)

BpmFlushAllPgs ==
  /\ bpm' = FlushAllPgsImp(bpm)
  /\ bpm_ret' = [op |-> "FlushAllPgs", ok |-> TRUE]
  /\ bpm_rt' = RtKeep(bpm_rt, INVALID_PAGE_ID, FALSE)

BpmDeletePg(page_id) ==
  LET r == DeletePgImp(bpm, page_id) IN
    /\ bpm' = r.b
    /\ bpm_ret' = [op |-> "DeletePg", ok |-> r.ok]
    /\ bpm_rt' = RtKeep(bpm_rt, page_id, FALSE)

bpmvars == <<bpm, bpm_ret, bpm_rt>>

(***************************************************************************)
(* The tree: any sequence of Insert, Remove, GetValue and scans.  GetValue *)
(* on an empty tree fetches page INVALID_PAGE_ID and reads whatever the    *)
(* frame holds as a tree page: any result.                                 *)
(***************************************************************************)
NoRet == [op |-> "init", key |-> 0, ok |-> TRUE, value |-> 0,
          keys |-> << >>, overrun |-> FALSE, pins |-> NoPins]

TreeStart(leaf_max_size, internal_max_size) ==
  /\ tree = NewTree(leaf_max_size, internal_max_size)
  /\ tree_ret = NoRet
  /\ present = << >>
  /\ tree_ops = 0

TreeInsert(key, value) ==
  LET r == Insert(tree, key, value) IN
    /\ tree_ops < MaxTreeOps
    /\ r.t.next_page_id <= MaxTreePages + 1
    /\ tree' = r.t
    /\ tree_ops' = tree_ops + 1
    /\ tree_ret' = [NoRet EXCEPT !.op = "Insert", !.key = key, !.ok = r.ok,
                                   !.pins = InsertPins(tree, key, value)]
    /\ present' = IF r.ok /\ key \notin DOMAIN present
                    THEN TableInsert(present, key, value)
                    ELSE present

TreeRemoveKey(key) ==
  /\ tree_ops < MaxTreeOps
  /\ tree' = TreeRemove(tree, key)
  /\ tree_ops' = tree_ops + 1
  /\ tree_ret' = [NoRet EXCEPT !.op = "Remove", !.key = key,
                                   !.pins = RemovePins(tree, key)]
  /\ present' = TableRemove(present, key)

TreeGetValue(key) ==
  /\ IF IsEmpty(tree)
       THEN \E found \in BOOLEAN, v \in TreeVals :
              tree_ret' = [NoRet EXCEPT !.op = "GetValue", !.key = key,
                                        !.ok = found, !.value = v]
       ELSE tree_ret' = [NoRet EXCEPT !.op = "GetValue", !.key = key,
                                      !.ok = GetValue(tree, key).found,
                                      !.value = GetValue(tree, key).value,
                                      !.pins = GetValuePins(tree, key)]
  /\ UNCHANGED <<tree, present, tree_ops>>

TreeScan ==
  /\ tree_ret' = [NoRet EXCEPT !.op = "Scan", !.keys = Scan(tree).keys,
                               !.overrun = Scan(tree).overrun]
  /\ UNCHANGED <<tree, present, tree_ops>>

treevars == <<tree, tree_ret, present, tree_ops>>

(***************************************************************************)
(* The tree called from two threads.  Insert and Remove take no latch      *)
(* (GetLeafPage fetches the pages and latches none), so the steps of a     *)
(* call interleave with those of the other thread: the IsEmpty() test,     *)
(* StartNewTree, GetLeafPage, and the rest of the call on the leaf page    *)
(* GetLeafPage returned.  Before the two calls the tree is built by up to  *)
(* MaxSeqOps calls of one thread.                                          *)
(***************************************************************************)
Threads == {1, 2}

NoThreads == [base |-> << >>, thr |-> << >>]

InThread(pc, op, key, value, leaf) ==
  [pc |-> pc, op |-> op, key |-> key, value |-> value, leaf |-> leaf]

\* thread th enters Insert or Remove and tests IsEmpty()
ConcCall(th, op, key, value) ==
  /\ th \notin DOMAIN conc.thr
  /\ conc' = [base |-> IF conc = NoThreads THEN tree ELSE conc.base,
              thr |-> TableInsert(conc.thr, th,
                        InThread(IF ~IsEmpty(tree) THEN "descend"
                                 ELSE IF op = "Insert" THEN "empty" ELSE "done",
                                 op, key, value, INVALID_PAGE_ID))]
  /\ UNCHANGED treevars

ConcStartNewTree(th) ==
  /\ th \in DOMAIN conc.thr /\ conc.thr[th].pc = "empty"
  /\ tree' = StartNewTree(tree, conc.thr[th].key, conc.thr[th].value)
  /\ conc' = [conc EXCEPT !.thr[th].pc = "done"]
  /\ UNCHANGED <<tree_ret, present, tree_ops>>

\* GetLeafPage; when the other thread has emptied the tree in between, the
\* page fetched is page INVALID_PAGE_ID, which is no page of the tree: the
\* call goes on in a frame of its own and leaves the tree as it is
ConcGetLeafPage(th) ==
  /\ th \in DOMAIN conc.thr /\ conc.thr[th].pc = "descend"
  /\ conc' = IF IsEmpty(tree)
               THEN [conc EXCEPT !.thr[th].pc = "done"]
               ELSE [conc EXCEPT !.thr[th].pc = "leaf",
                                 !.thr[th].leaf =
                                    GetLeafPage(tree, conc.thr[th].key)]
  /\ UNCHANGED treevars

\* the rest of InsertIntoLeaf or of Remove
ConcAtLeaf(th) ==
  /\ th \in DOMAIN conc.thr /\ conc.thr[th].pc = "leaf"
  /\ LET c == conc.thr[th] IN
       \/ /\ c.op = "Insert"
          /\ InsertIntoLeafAt(tree, c.leaf, c.key, c.value).t.next_page_id
               <= MaxTreePages + 1
          /\ tree' = InsertIntoLeafAt(tree, c.leaf, c.key, c.value).t
       \/ /\ c.op = "Remove"
          /\ tree' = RemoveAtLeaf(tree, c.leaf, c.key)
  /\ conc' = [conc EXCEPT !.thr[th].pc = "done"]
  /\ UNCHANGED <<tree_ret, present, tree_ops>>

(***************************************************************************)
(* The lock manager.  lm holds the two lock maps; a queue is its           *)
(* request_queue_, its upgrading_ field and the thread that holds its      *)
(* latch_ (INVALID_TXN_ID when it is free).  Every transaction runs on a   *)
(* thread of its own; lm_pc is the position of that thread inside a call.  *)
(* The map latches are held only while a queue is looked up and are not    *)
(* kept as state.  The asserts are evaluated (a build without NDEBUG).     *)
(***************************************************************************)
LockModes == {"S", "X", "IS", "IX", "SIX"}

IsolationLevels == {"READ_UNCOMMITTED", "READ_COMMITTED", "REPEATABLE_READ"}

INVALID_TXN_ID == 0 - 1

Txns == 0..(MaxTxn - 1)

Oids == 0..(MaxTables - 1)

Rids == 0..(MaxRows - 1)

NoRid == 0 - 1

\* a RID names a slot of a page, and a page belongs to the heap of one table:
\* the table of a row
TableOf(rid) == rid % MaxTables

NewQueue ==
  [request_queue |-> << >>, upgrading |-> INVALID_TXN_ID, latch |-> INVALID_TXN_ID]

LockRequest(txn_id, lock_mode, oid, rid) ==
  [txn_id |-> txn_id, lock_mode |-> lock_mode, oid |-> oid, rid |-> rid,
   granted |-> FALSE]

NewTransaction(isolation) ==
  [state |-> "GROWING", isolation |-> isolation,
   table_lock_set |-> {}, row_lock_set |-> {}]

NewLockManager == [table_lock_map |-> << >>, row_lock_map |-> << >>]

\* a check that also refuses S and IS to a shrinking READ_COMMITTED transaction
CheckLockValidityStrict(txn, lock_mode) ==
  IF txn.isolation = "READ_UNCOMMITTED" /\ lock_mode \in {"S", "IS", "SIX"}
    THEN "LOCK_SHARED_ON_READ_UNCOMMITTED"
  ELSE IF txn.state = "SHRINKING" THEN "LOCK_ON_SHRINKING"
  ELSE "ok"

\* the reason of the TransactionAbortException, "ok" when the check passes
CheckLockValidity(txn, lock_mode) ==
  IF txn.isolation = "READ_UNCOMMITTED" /\ lock_mode \in {"S", "IS", "SIX"}
    THEN "LOCK_SHARED_ON_READ_UNCOMMITTED"
  ELSE IF /\ txn.isolation = "READ_UNCOMMITTED"
          /\ txn.state = "SHRINKING" /\ lock_mode \in {"X", "IX"}
    THEN "LOCK_ON_SHRINKING"
  ELSE IF /\ txn.isolation = "READ_COMMITTED"
          /\ txn.state = "SHRINKING" /\ lock_mode \in {"X", "IX", "SIX"}
    THEN "LOCK_ON_SHRINKING"
  ELSE IF txn.isolation = "REPEATABLE_READ" /\ txn.state = "SHRINKING"
    THEN "LOCK_ON_SHRINKING"
  ELSE "ok"

\* a check that lets every change of mode through
CheckPreLockAny(pre_lock, lock_mode) == TRUE

CheckPreLock(pre_lock, lock_mode) ==
  \/ pre_lock = "IS"
  \/ pre_lock = "S" /\ lock_mode \in {"X", "SIX"}
  \/ pre_lock = "IX" /\ lock_mode \in {"X", "SIX"}
  \/ pre_lock = "SIX" /\ lock_mode = "X"

\* a GrantLock that only a granted X stops
GrantLockBlocksExclusiveOnly(lock_mode, held) == held = "X"

\* the switch of GrantLock: a granted request of mode held stops a request of
\* mode lock_mode
GrantLockBlocks(lock_mode, held) ==
  \/ lock_mode = "S" /\ held \in {"IX", "SIX", "X"}
  \/ lock_mode = "X"
  \/ lock_mode = "IS" /\ held = "X"
  \/ lock_mode = "IX" /\ held \in {"S", "SIX", "X"}
  \/ lock_mode = "SIX" /\ held # "IS"

\* request is the request of txn_id on oid that is not granted
RECURSIVE GrantLockFrom(_, _, _, _, _)
GrantLockFrom(request_queue, i, txn_id, oid, lock_mode) ==
  IF i > Len(request_queue) THEN FALSE
  ELSE LET lr == request_queue[i] IN
    IF lr.granted
      THEN IF GrantLockBlocks(lock_mode, lr.lock_mode) THEN FALSE
           ELSE GrantLockFrom(request_queue, i + 1, txn_id, oid, lock_mode)
      ELSE lr.txn_id = txn_id /\ lr.oid = oid

GrantLock(txn_id, oid, lock_mode, queue) ==
  GrantLockFrom(queue.request_queue, 1, txn_id, oid, lock_mode)

\* position of the first request that is not granted, Len + 1 if there is none
FirstUngranted(request_queue) ==
  MinOf({i \in 1..Len(request_queue) : ~request_queue[i].granted}
          \cup {Len(request_queue) + 1})

InsertIntoQueue(request_queue, request, place_first) ==
  IF place_first
    THEN InsertAt(request_queue, FirstUngranted(request_queue), request)
    ELSE Append(request_queue, request)

\* std::find_if over a queue: position of the first request of txn_id on oid
\* whose granted_ is one of the values in granted, or 0.  (The requests of a
\* row's queue all have that row's rid_.)
FindRequest(request_queue, txn_id, oid, granted) ==
  LET found == {i \in 1..Len(request_queue) :
                  /\ request_queue[i].txn_id = txn_id
                  /\ request_queue[i].oid = oid
                  /\ request_queue[i].granted \in granted}
  IN IF found # {} THEN MinOf(found) ELSE 0

\* a ModTableLockSet that never erases
ModTableLockSetKeeps(txn, request, is_insert) ==
  IF is_insert
    THEN [txn EXCEPT !.table_lock_set = @ \cup {<<request.lock_mode, request.oid>>}]
    ELSE txn

ModTableLockSet(txn, request, is_insert) ==
  IF is_insert
    THEN [txn EXCEPT !.table_lock_set = @ \cup {<<request.lock_mode, request.oid>>}]
    ELSE [txn EXCEPT !.table_lock_set = @ \ {<<request.lock_mode, request.oid>>}]

ModRowLockSet(txn, request, is_insert) ==
  IF is_insert /\ request.lock_mode \in {"S", "X"}
    THEN [txn EXCEPT !.row_lock_set =
                        @ \cup {<<request.lock_mode, request.oid, request.rid>>}]
    ELSE txn

EraseRowLock(txn, request) ==
  [txn EXCEPT !.row_lock_set =
                 @ \ {<<request.lock_mode, request.oid, request.rid>>}]

IsTableLocked(txn, modes, oid) ==
  \E lock_mode \in modes : <<lock_mode, oid>> \in txn.table_lock_set

\* a SetState that leaves the state as it is
SetAbortedNot(txn) == txn

SetAborted(txn) == [txn EXCEPT !.state = "ABORTED"]

\* an unlock that makes every transaction SHRINKING
AfterUnlockAlways(txn, lock_mode) == [txn EXCEPT !.state = "SHRINKING"]

\* an unlock that lets a transaction grow again after the release of a mode
\* that does not make it shrink
AfterUnlockRegrow(txn, lock_mode) ==
  IF txn.state \in {"COMMITTED", "ABORTED"} THEN txn
  ELSE IF \/ txn.isolation = "REPEATABLE_READ" /\ lock_mode \in {"S", "X"}
          \/ lock_mode = "X"
    THEN [txn EXCEPT !.state = "SHRINKING"]
    ELSE [txn EXCEPT !.state = "GROWING"]

\* the state change at the end of a successful unlock
AfterUnlock(txn, lock_mode) ==
  IF /\ \/ txn.isolation = "REPEATABLE_READ" /\ lock_mode \in {"S", "X"}
        \/ txn.isolation = "READ_COMMITTED" /\ lock_mode = "X"
        \/ txn.isolation = "READ_UNCOMMITTED" /\ lock_mode = "X"
     /\ txn.state \notin {"COMMITTED", "ABORTED"}
    THEN [txn EXCEPT !.state = "SHRINKING"]
    ELSE txn

\* std::mutex::unlock by thread t: the latch becomes free when t holds it;
\* when t does not hold it the behaviour is undefined, and the latch is left
\* as it was or is released under its holder
UnlockOutcomes(latch, t) ==
  IF latch = t THEN {INVALID_TXN_ID} ELSE {latch, INVALID_TXN_ID}

\* the queue of a table or of a row, as found or created by a call
QueueOf(l, kind, key) ==
  IF kind = "table"
    THEN IF TableFind(l.table_lock_map, key) THEN l.table_lock_map[key] ELSE NewQueue
    ELSE IF TableFind(l.row_lock_map, key) THEN l.row_lock_map[key] ELSE NewQueue

SetQueue(l, kind, key, queue) ==
  IF kind = "table"
    THEN [l EXCEPT !.table_lock_map = TableInsert(@, key, queue)]
    ELSE [l EXCEPT !.row_lock_map = TableInsert(@, key, queue)]

LatchFree(l, kind, key) == QueueOf(l, kind, key).latch = INVALID_TXN_ID

\* the position of a thread: outside a call, about to evaluate GrantLock,
\* about to grant, inside cv_.wait, notified, between the two unlocks of
\* UnlockRow
Idle ==
  [pc |-> "idle", kind |-> "none", key |-> 0, oid |-> 0, lock_mode |-> "S",
   is_upgrade |-> FALSE]

InCall(pc, kind, key, oid, lock_mode, is_upgrade) ==
  [pc |-> pc, kind |-> kind, key |-> key, oid |-> oid, lock_mode |-> lock_mode,
   is_upgrade |-> is_upgrade]

\* cv_.notify_all of one queue
NotifyAll(pcs, kind, key) ==
  [t \in DOMAIN pcs |->
     IF pcs[t].pc = "wait" /\ pcs[t].kind = kind /\ pcs[t].key = key
       THEN [pcs[t] EXCEPT !.pc = "notified"] ELSE pcs[t]]

Returned(t, op, result, reason) ==
  [txn |-> t, op |-> op, result |-> result, reason |-> reason]

(***************************************************************************)
(* The lock manager's calls.  A call that has to wait takes several steps: *)
(* LockTable or LockRow up to InsertIntoQueue, then the wait loop          *)
(* (LockWaitLoop evaluates GrantLock and either goes on to LockGranted or  *)
(* waits on cv_; LockWakeUp is the return from cv_.wait).  UnlockRow takes *)
(* two steps, one up to its first latch_.unlock() and one for the rest.    *)
(* Transactions that are GROWING or SHRINKING ask for locks; unlocks come  *)
(* from transactions in any state.                                         *)
(***************************************************************************)
LmStart(isolation) ==
  /\ lm = NewLockManager
  /\ txns = [t \in Txns |-> NewTransaction(isolation[t])]
  /\ lm_pc = [t \in Txns |-> Idle]
  /\ lm_ret = Returned(INVALID_TXN_ID, "init", "true", "")
  /\ lm_calls = 0

\* the number of calls is bounded: by MaxLMCalls when the calls are chosen
\* freely, by MaxRunCalls in a scripted run
CanCall(t) ==
  /\ lm_pc[t].pc = "idle"
  /\ lm_calls < (IF prog = << >> THEN MaxLMCalls ELSE MaxRunCalls)

\* a call of t ends by throwing TransactionAbortException
Throws(t, op, reason, l) ==
  /\ txns' = [txns EXCEPT ![t] = SetAborted(@)]
  /\ lm_ret' = Returned(t, op, "throw", reason)
  /\ lm' = l
  /\ lm_pc' = [lm_pc EXCEPT ![t] = Idle]

LockTable(t, lock_mode, oid) ==
  LET txn == txns[t]
      why == CheckLockValidity(txn, lock_mode)
      que == QueueOf(lm, "table", oid)
      pos == FindRequest(que.request_queue, t, oid, BOOLEAN)
      is_upgrade == pos # 0
      request == que.request_queue[pos]
      erased == IF is_upgrade
                  THEN [que EXCEPT !.request_queue = RemoveAt(@, pos)] ELSE que
      lock_quest == LockRequest(t, lock_mode, oid, NoRid)
      queued == [erased EXCEPT
                   !.upgrading = IF is_upgrade THEN t ELSE @,
                   !.request_queue = InsertIntoQueue(@, lock_quest, is_upgrade),
                   !.latch = t]
  IN
  /\ CanCall(t)
  /\ txn.state \in {"GROWING", "SHRINKING"}
  /\ lm_calls' = lm_calls + 1
  /\ IF why # "ok" THEN Throws(t, "LockTable", why, lm)
     ELSE
       /\ LatchFree(lm, "table", oid)
       /\ IF is_upgrade /\ request.lock_mode = lock_mode THEN
            /\ lm' = SetQueue(lm, "table", oid, que)
            /\ lm_ret' = Returned(t, "LockTable", "true", "")
            /\ UNCHANGED <<txns, lm_pc>>
          ELSE IF is_upgrade /\ ~CheckPreLock(request.lock_mode, lock_mode) THEN
            Throws(t, "LockTable", "INCOMPATIBLE_UPGRADE",
                   SetQueue(lm, "table", oid, que))
          ELSE IF erased.upgrading # INVALID_TXN_ID THEN
            /\ txns' = [txns EXCEPT ![t] =
                 SetAborted(IF is_upgrade THEN ModTableLockSet(txn, request, FALSE)
                                          ELSE txn)]
            /\ lm_ret' = Returned(t, "LockTable", "throw", "UPGRADE_CONFLICT")
            /\ lm' = SetQueue(lm, "table", oid, erased)
            /\ UNCHANGED lm_pc
          ELSE
            /\ txns' = [txns EXCEPT ![t] =
                 IF is_upgrade THEN ModTableLockSet(txn, request, FALSE) ELSE txn]
            /\ lm' = SetQueue(lm, "table", oid, queued)
            /\ lm_pc' = [lm_pc EXCEPT ![t] =
                 InCall("check", "table", oid, oid, lock_mode, is_upgrade)]
            /\ lm_ret' = Returned(t, "LockTable", "pending", "")

LockRow(t, lock_mode, oid, rid) ==
  LET txn == txns[t]
      why == CheckLockValidity(txn, lock_mode)
      que == QueueOf(lm, "row", rid)
      pos == FindRequest(que.request_queue, t, oid, BOOLEAN)
      is_upgrade == pos # 0
      request == que.request_queue[pos]
      erased == IF is_upgrade
                  THEN [que EXCEPT !.request_queue = RemoveAt(@, pos)] ELSE que
      lock_quest == LockRequest(t, lock_mode, oid, rid)
      queued == [erased EXCEPT
                   !.upgrading = IF is_upgrade THEN t ELSE @,
                   !.request_queue = InsertIntoQueue(@, lock_quest, TRUE),
                   !.latch = t]
  IN
  /\ CanCall(t)
  /\ txn.state \in {"GROWING", "SHRINKING"}
  /\ lm_calls' = lm_calls + 1
  /\ IF lock_mode \notin {"S", "X"} THEN
       Throws(t, "LockRow", "ATTEMPTED_INTENTION_LOCK_ON_ROW", lm)
     ELSE IF why # "ok" THEN Throws(t, "LockRow", why, lm)
     ELSE IF \/ lock_mode = "X" /\ ~IsTableLocked(txn, {"X", "IX", "SIX"}, oid)
             \/ lock_mode = "S" /\ ~IsTableLocked(txn, LockModes, oid) THEN
       Throws(t, "LockRow", "TABLE_LOCK_NOT_PRESENT", lm)
     ELSE
       /\ LatchFree(lm, "row", rid)
       /\ IF que.upgrading # INVALID_TXN_ID THEN
            Throws(t, "LockRow", "UPGRADE_CONFLICT", SetQueue(lm, "row", rid, que))
          ELSE IF is_upgrade /\ request.lock_mode = lock_mode THEN
            /\ lm' = SetQueue(lm, "row", rid, que)
            /\ lm_ret' = Returned(t, "LockRow", "true", "")
            /\ UNCHANGED <<txns, lm_pc>>
          ELSE IF is_upgrade /\ ~CheckPreLock(request.lock_mode, lock_mode) THEN
            Throws(t, "LockRow", "INCOMPATIBLE_UPGRADE",
                   SetQueue(lm, "row", rid, que))
          ELSE
            /\ txns' = [txns EXCEPT ![t] =
                 IF is_upgrade THEN EraseRowLock(txn, request) ELSE txn]
            /\ lm' = SetQueue(lm, "row", rid, queued)
            /\ lm_pc' = [lm_pc EXCEPT ![t] =
                 InCall("check", "row", rid, oid, lock_mode, is_upgrade)]
            /\ lm_ret' = Returned(t, "LockRow", "pending", "")

\* while (!GrantLock(lock_quest, lock_request_que)) cv_.wait(lock)
LockWaitLoop(t) ==
  LET f == lm_pc[t]
      que == QueueOf(lm, f.kind, f.key)
  IN
  /\ f.pc = "check"
  /\ IF GrantLock(t, f.oid, f.lock_mode, que)
       THEN /\ lm_pc' = [lm_pc EXCEPT ![t].pc = "grant"]
            /\ UNCHANGED lm
       ELSE /\ lm_pc' = [lm_pc EXCEPT ![t].pc = "wait"]
            /\ \E latch \in UnlockOutcomes(que.latch, t) :
                 lm' = SetQueue(lm, f.kind, f.key, [que EXCEPT !.latch = latch])
  /\ UNCHANGED <<txns, lm_ret, lm_calls>>

\* a waiter that goes on waiting whatever the state of its transaction
GivesUpNever(txn) == FALSE

\* if (txn->GetState() == TransactionState::ABORTED) after cv_.wait
GivesUp(txn) == txn.state = "ABORTED"

\* the return from cv_.wait: the latch is taken again, and an aborted
\* transaction gives up
LockWakeUp(t) ==
  LET f == lm_pc[t]
      que == QueueOf(lm, f.kind, f.key)
      pos == FindRequest(que.request_queue, t, f.oid, {FALSE})
  IN
  /\ f.pc = "notified"
  /\ que.latch = INVALID_TXN_ID
  /\ IF GivesUp(txns[t])
       THEN /\ lm' = SetQueue(lm, f.kind, f.key,
                       [que EXCEPT !.upgrading = IF f.is_upgrade THEN INVALID_TXN_ID ELSE @,
                                   !.request_queue = RemoveAt(@, pos)])
            /\ lm_pc' = NotifyAll([lm_pc EXCEPT ![t] = Idle], f.kind, f.key)
            /\ lm_ret' = Returned(t, IF f.kind = "table" THEN "LockTable" ELSE "LockRow",
                                  "false", "")
       ELSE /\ lm' = SetQueue(lm, f.kind, f.key, [que EXCEPT !.latch = t])
            /\ lm_pc' = [lm_pc EXCEPT ![t].pc = "check"]
            /\ UNCHANGED lm_ret
  /\ UNCHANGED <<txns, lm_calls>>

\* after the wait loop: the request is granted and the call returns true
LockGranted(t) ==
  LET f == lm_pc[t]
      que == QueueOf(lm, f.kind, f.key)
      pos == FindRequest(que.request_queue, t, f.oid, {FALSE})
      lock_quest == que.request_queue[pos]
      woken == IF f.lock_mode # "X" THEN NotifyAll(lm_pc, f.kind, f.key) ELSE lm_pc
  IN
  /\ f.pc = "grant"
  /\ \E latch \in UnlockOutcomes(que.latch, t) :
       lm' = SetQueue(lm, f.kind, f.key,
               [que EXCEPT !.request_queue[pos].granted = TRUE,
                           !.upgrading = IF f.kind = "table" \/ f.is_upgrade
                                           THEN INVALID_TXN_ID ELSE @,
                           !.latch = latch])
  /\ txns' = [txns EXCEPT ![t] =
       IF f.kind = "table" THEN ModTableLockSet(@, lock_quest, TRUE)
                           ELSE ModRowLockSet(@, lock_quest, TRUE)]
  /\ lm_pc' = [woken EXCEPT ![t] = Idle]
  /\ lm_ret' = Returned(t, IF f.kind = "table" THEN "LockTable" ELSE "LockRow",
                        "true", "")
  /\ UNCHANGED lm_calls

UnlockTable(t, oid) ==
  LET txn == txns[t]
      que == QueueOf(lm, "table", oid)
      pos == FindRequest(que.request_queue, t, oid, {TRUE})
      request == que.request_queue[pos]
  IN
  /\ CanCall(t)
  /\ lm_calls' = lm_calls + 1
  /\ IF ~TableFind(lm.table_lock_map, oid) THEN
       Throws(t, "UnlockTable", "ATTEMPTED_UNLOCK_BUT_NO_LOCK_HELD", lm)
     ELSE IF \E l \in txn.row_lock_set : l[2] = oid THEN
       Throws(t, "UnlockTable", "TABLE_UNLOCKED_BEFORE_UNLOCKING_ROWS", lm)
     ELSE
       /\ LatchFree(lm, "table", oid)
       /\ IF pos # 0 THEN
            /\ lm' = SetQueue(lm, "table", oid,
                       [que EXCEPT !.request_queue = RemoveAt(@, pos)])
            /\ lm_pc' = NotifyAll(lm_pc, "table", oid)
            /\ txns' = [txns EXCEPT ![t] =
                 ModTableLockSet(AfterUnlock(txn, request.lock_mode), request, FALSE)]
            /\ lm_ret' = Returned(t, "UnlockTable", "true", "")
          ELSE Throws(t, "UnlockTable", "ATTEMPTED_UNLOCK_BUT_NO_LOCK_HELD", lm)

\* UnlockRow up to its first latch_.unlock()
UnlockRow(t, oid, rid) ==
  LET txn == txns[t]
      que == QueueOf(lm, "row", rid)
      pos == FindRequest(que.request_queue, t, oid, BOOLEAN)
      request == que.request_queue[pos]
  IN
  /\ CanCall(t)
  /\ lm_calls' = lm_calls + 1
  /\ LatchFree(lm, "row", rid)
  /\ IF pos # 0 THEN
       /\ lm' = SetQueue(lm, "row", rid,
                  [que EXCEPT !.request_queue = RemoveAt(@, pos)])
       /\ lm_pc' = [NotifyAll(lm_pc, "row", rid) EXCEPT ![t] =
            InCall("unlocked", "row", rid, oid, request.lock_mode, FALSE)]
       /\ lm_ret' = Returned(t, "UnlockRow", "pending", "")
       /\ UNCHANGED txns
     ELSE IF txn.state = "ABORTED" THEN
       \* returns false with the latch still locked
       /\ lm' = SetQueue(lm, "row", rid, [que EXCEPT !.latch = t])
       /\ lm_ret' = Returned(t, "UnlockRow", "false", "")
       /\ UNCHANGED <<txns, lm_pc>>
     ELSE Throws(t, "UnlockRow", "ATTEMPTED_UNLOCK_BUT_NO_LOCK_HELD",
                 SetQueue(lm, "row", rid, que))

\* the rest of UnlockRow: the lock set, the second notify_all and the second
\* latch_.unlock(), of a latch this thread no longer holds
UnlockRowEnd(t) ==
  LET f == lm_pc[t]
      que == QueueOf(lm, "row", f.key)
      request == LockRequest(t, f.lock_mode, f.oid, f.key)
  IN
  /\ f.pc = "unlocked"
  /\ \E latch \in UnlockOutcomes(que.latch, t) :
       lm' = SetQueue(lm, "row", f.key, [que EXCEPT !.latch = latch])
  /\ txns' = [txns EXCEPT ![t] = AfterUnlock(EraseRowLock(@, request), f.lock_mode)]
  /\ lm_pc' = [NotifyAll(lm_pc, "row", f.key) EXCEPT ![t] = Idle]
  /\ lm_ret' = Returned(t, "UnlockRow", "true", "")
  /\ UNCHANGED lm_calls

\* a waiting transaction is set ABORTED from outside and every queue is
\* notified, as the detector does for its victim
AbortWaiter(t) ==
  /\ lm_pc[t].pc = "wait"
  /\ txns[t].state # "ABORTED"
  /\ txns' = [txns EXCEPT ![t] = SetAborted(@)]
  /\ lm_pc' = [u \in Txns |->
                 IF lm_pc[u].pc = "wait" THEN [lm_pc[u] EXCEPT !.pc = "notified"]
                                         ELSE lm_pc[u]]
  /\ lm_ret' = Returned(t, "Abort", "true", "")
  /\ UNCHANGED <<lm, lm_calls>>

\* TransactionManager::Commit: the state becomes COMMITTED; the locks are then
\* released by UnlockRow and UnlockTable calls of the same thread
Commit(t) ==
  /\ CanCall(t)
  /\ txns[t].state \in {"GROWING", "SHRINKING"}
  /\ lm_calls' = lm_calls + 1
  /\ txns' = [txns EXCEPT ![t].state = "COMMITTED"]
  /\ lm_ret' = Returned(t, "Commit", "true", "")
  /\ UNCHANGED <<lm, lm_pc>>

lmvars == <<lm, txns, lm_pc, lm_ret, lm_calls>>

(***************************************************************************)
(* The deadlock detector.  waits_for_ is a function from the transactions  *)
(* that wait to the sets of transactions they wait for; it is walked in    *)
(* the order of the transaction ids.                                       *)
(***************************************************************************)
\* every request that is not granted waits for every granted request of the
\* queue whose mode stops it
BuildGraph(l) ==
  LET queues == {l.table_lock_map[k] : k \in DOMAIN l.table_lock_map}
                  \cup {l.row_lock_map[k] : k \in DOMAIN l.row_lock_map}
      edges == {<<q.request_queue[i].txn_id, q.request_queue[j].txn_id>> :
                  <<q, i, j>> \in
                    {<<q, i, j>> \in queues \X (1..(MaxLMCalls + 1)) \X (1..(MaxLMCalls + 1)) :
                       /\ i \in 1..Len(q.request_queue)
                       /\ j \in 1..Len(q.request_queue)
                       /\ ~q.request_queue[i].granted
                       /\ q.request_queue[j].granted
                       /\ q.request_queue[i].txn_id # q.request_queue[j].txn_id
                       /\ GrantLockBlocks(q.request_queue[i].lock_mode,
                                          q.request_queue[j].lock_mode)}}
  IN [t \in {e[1] : e \in edges} |-> {e[2] : e \in {d \in edges : d[1] = t}}]

\* the element of a set of one element; a result that is used several times
\* is bound as r \in {...}, so that it is computed once
Only(S) == CHOOSE y \in S : TRUE

\* the depth-first search from node: the transaction at which the path closes
\* a cycle (INVALID_TXN_ID if it closes none), the transactions visited, and
\* the path, which ends where the cycle was closed.  DFSNext goes through
\* next, the transactions node waits for, from the i-th on; here is the path
\* with node at its end.
RECURSIVE DFS(_, _, _, _)
RECURSIVE DFSNext(_, _, _, _, _, _)
DFSNext(waits_for, path, here, next, i, visited) ==
  IF i > Len(next)
    THEN [cycle_id |-> INVALID_TXN_ID, visited |-> visited, path |-> path]
  ELSE IF \E n \in 1..Len(here) : here[n] = next[i]
    THEN [cycle_id |-> next[i], visited |-> visited, path |-> here]
  ELSE IF next[i] \in visited
    THEN DFSNext(waits_for, path, here, next, i + 1, visited)
  ELSE Only({IF r.cycle_id # INVALID_TXN_ID THEN r
             ELSE DFSNext(waits_for, path, here, next, i + 1, r.visited) :
               r \in {DFS(waits_for, next[i], visited, here)}})

DFS(waits_for, node, visited, path) ==
  Only({DFSNext(waits_for, path, Append(path, node), next, 1, visited \cup {node}) :
          next \in {SortedSeq(IF node \in DOMAIN waits_for THEN waits_for[node]
                                                           ELSE {})}})

\* a HasCycle that picks the transaction at which the cycle was closed
RECURSIVE HasCycleClosing(_, _, _, _, _)
HasCycleClosing(waits_for, start, i, visited, path) ==
  IF i > Len(start)
    THEN [found |-> FALSE, txn_id |-> INVALID_TXN_ID, cycle |-> << >>]
  ELSE IF start[i] \in visited
    THEN HasCycleClosing(waits_for, start, i + 1, visited, path)
  ELSE Only({IF r.cycle_id # INVALID_TXN_ID
               THEN LET it == MinOf({n \in 1..Len(r.path) : r.path[n] = r.cycle_id})
                        trimmed == SubSeq(r.path, it, Len(r.path))
                    IN [found |-> TRUE, txn_id |-> r.cycle_id, cycle |-> trimmed]
               ELSE HasCycleClosing(waits_for, start, i + 1, r.visited, r.path) :
               r \in {DFS(waits_for, start[i], visited, path)}})

\* the loop of HasCycle over start, the entries of waits_for_, from the i-th
\* on: whether a cycle was found, the transaction to abort and, for the
\* properties, the path trimmed to the cycle
RECURSIVE HasCycleFrom(_, _, _, _, _)
HasCycleFrom(waits_for, start, i, visited, path) ==
  IF i > Len(start)
    THEN [found |-> FALSE, txn_id |-> INVALID_TXN_ID, cycle |-> << >>]
  ELSE IF start[i] \in visited
    THEN HasCycleFrom(waits_for, start, i + 1, visited, path)
  ELSE Only({IF r.cycle_id # INVALID_TXN_ID
               THEN LET it == MinOf({n \in 1..Len(r.path) : r.path[n] = r.cycle_id})
                        trimmed == SubSeq(r.path, it, Len(r.path))
                    IN [found |-> TRUE,
                        txn_id |-> MaxOf({trimmed[n] : n \in 1..Len(trimmed)}),
                        cycle |-> trimmed]
               ELSE HasCycleFrom(waits_for, start, i + 1, r.visited, r.path) :
               r \in {DFS(waits_for, start[i], visited, path)}})

HasCycle(waits_for) ==
  HasCycleFrom(waits_for, SortedSeq(DOMAIN waits_for), 1, {}, << >>)

\* the victim leaves the graph: its entry and every edge to it
RemoveTxn(waits_for, abort_id) ==
  [t \in (DOMAIN waits_for) \ {abort_id} |-> waits_for[t] \ {abort_id}]

\* the transactions set ABORTED by while (HasCycle(&abort_id)), in order
RECURSIVE AbortCycles(_)
AbortCycles(waits_for) ==
  Only({IF r.found THEN <<r.txn_id>> \o AbortCycles(RemoveTxn(waits_for, r.txn_id))
                   ELSE << >> :
          r \in {HasCycle(waits_for)}})

\* the detector between two calls of HasCycle
Detection(waits_for) ==
  [waits_for |-> waits_for, abort_id |-> INVALID_TXN_ID, aborted |-> {},
   cycle |-> << >>, done |-> FALSE]

\* one pass of RunCycleDetection over the queues as they are
RunCycleDetection ==
  \E waits_for \in {BuildGraph(lm)} :
  \E victims \in {AbortCycles(waits_for)} :
  /\ victims # << >>
  /\ txns' = [t \in DOMAIN txns |->
                IF \E n \in 1..Len(victims) : victims[n] = t
                  THEN SetAborted(txns[t]) ELSE txns[t]]
  /\ lm_pc' = [t \in DOMAIN lm_pc |->
                 IF lm_pc[t].pc = "wait" THEN [lm_pc[t] EXCEPT !.pc = "notified"]
                                         ELSE lm_pc[t]]
  /\ lm_ret' = Returned(victims[Len(victims)], "RunCycleDetection", "true", "")
  /\ UNCHANGED <<lm, lm_calls>>

\* the same pass over a given graph, one call of HasCycle at a time
DetHasCycle ==
  LET r == HasCycle(det.waits_for) IN
  /\ ~det.done
  /\ r.found
  /\ det' = [det EXCEPT !.waits_for = RemoveTxn(@, r.txn_id),
                        !.abort_id = r.txn_id,
                        !.aborted = @ \cup {r.txn_id},
                        !.cycle = r.cycle]

DetEnd ==
  /\ ~det.done
  /\ ~HasCycle(det.waits_for).found
  /\ det' = [det EXCEPT !.done = TRUE]

(***************************************************************************)
(* Scripted runs of the lock manager: each transaction has a thread that   *)
(* makes the calls of its script, one after the other; the detector runs   *)
(* in the background.  A call is <<operation, lock mode, table oid>> or    *)
(* <<"LockRow", lock mode, table oid, rid>>.                               *)
(*   deadlock: a locks table 0 in X, then table 1 in X;                    *)
(*             b locks table 1 in X, then table 0 in X                     *)
(*   block:    a locks table 0 in S, then unlocks it; b locks it in X      *)
(*   upgrade:  a locks table 0 in S, then in X;                            *)
(*             b locks table 0 in S, then unlocks it                       *)
(*   alone:    a locks table 0 in S, then in X; b makes no call            *)
(*   upgrade_deadlock: a locks table 1 in IS and table 0 in S, then asks   *)
(*             for X on table 0; b locks table 0 in S, then table 1 in X   *)
(*   row_deadlock: both lock table 0 in IX; a locks row 0 in X, then row 1 *)
(*             in X; b locks row 1 in X, then row 0 in X                   *)
(*   upgrade_conflict: a and b lock table 0 in S, then both ask for X      *)
(***************************************************************************)
Script(kind, a, b) ==
  LET calls ==
        IF kind = "deadlock" THEN
          (a :> <<<<"LockTable", "X", 0>>, <<"LockTable", "X", 1>>>>) @@
          (b :> <<<<"LockTable", "X", 1>>, <<"LockTable", "X", 0>>>>)
        ELSE IF kind = "block" THEN
          (a :> <<<<"LockTable", "S", 0>>, <<"UnlockTable", "S", 0>>>>) @@
          (b :> <<<<"LockTable", "X", 0>>>>)
        ELSE IF kind = "upgrade" THEN
          (a :> <<<<"LockTable", "S", 0>>, <<"LockTable", "X", 0>>>>) @@
          (b :> <<<<"LockTable", "S", 0>>, <<"UnlockTable", "S", 0>>>>)
        ELSE IF kind = "upgrade_deadlock" THEN
          (a :> <<<<"LockTable", "IS", 1>>, <<"LockTable", "S", 0>>,
                  <<"LockTable", "X", 0>>>>) @@
          (b :> <<<<"LockTable", "S", 0>>, <<"LockTable", "X", 1>>>>)
        ELSE IF kind = "upgrade_conflict" THEN
          (a :> <<<<"LockTable", "S", 0>>, <<"LockTable", "X", 0>>>>) @@
          (b :> <<<<"LockTable", "S", 0>>, <<"LockTable", "X", 0>>>>)
        ELSE IF kind = "row_deadlock" THEN
          (a :> <<<<"LockTable", "IX", 0>>, <<"LockRow", "X", 0, 0>>,
                  <<"LockRow", "X", 0, 1>>>>) @@
          (b :> <<<<"LockTable", "IX", 0>>, <<"LockRow", "X", 0, 1>>,
                  <<"LockRow", "X", 0, 0>>>>)
        ELSE
          (a :> <<<<"LockTable", "S", 0>>, <<"LockTable", "X", 0>>>>)
  IN [t \in Txns |->
        [calls |-> IF t \in DOMAIN calls THEN calls[t] ELSE << >>,
         results |-> << >>]]

\* the thread of t makes the next call of its script
RunCall(t) ==
  /\ prog[t].calls # << >>
  /\ LET c == Head(prog[t].calls) IN
       \/ c[1] = "LockTable" /\ LockTable(t, c[2], c[3])
       \/ c[1] = "LockRow" /\ LockRow(t, c[2], c[3], c[4])
       \/ c[1] = "UnlockTable" /\ txns[t].state # "ABORTED" /\ UnlockTable(t, c[3])
  /\ prog' = [prog EXCEPT ![t].calls = Tail(@),
                          ![t].results = IF lm_pc'[t].pc = "idle"
                                           THEN Append(@, lm_ret'.result) ELSE @]

\* the thread of t goes on inside its call
RunStep(t) ==
  /\ \/ LockWaitLoop(t)
     \/ LockWakeUp(t)
     \/ LockGranted(t)
  /\ prog' = [prog EXCEPT ![t].results = IF lm_pc'[t].pc = "idle"
                                           THEN Append(@, lm_ret'.result) ELSE @]

\* TransactionManager::Abort releases the locks of an aborted transaction,
\* the row locks before the table locks
RunAbort(t) ==
  /\ txns[t].state = "ABORTED"
  /\ \/ \E l \in txns[t].row_lock_set : UnlockRow(t, l[2], l[3])
     \/ UnlockRowEnd(t)
     \/ /\ txns[t].row_lock_set = {}
        /\ \E l \in txns[t].table_lock_set : UnlockTable(t, l[2])
  /\ UNCHANGED prog

RunDetector == RunCycleDetection /\ UNCHANGED prog

(***************************************************************************)
(* A scripted run of the replacer, as a test makes it: a replacer of       *)
(* seven frames; frames 1..6 are accessed once each and set evictable,     *)
(* frames 1..5 are accessed again, then the frames of third are accessed,  *)
(* then Evict is called four times.                                        *)
(***************************************************************************)
ScenarioScript(third) ==
  [i \in 1..6 |-> <<"RecordAccess", i>>] \o
  [i \in 1..6 |-> <<"SetEvictable", i>>] \o
  [i \in 1..5 |-> <<"RecordAccess", i>>] \o
  [i \in 1..Len(third) |-> <<"RecordAccess", third[i]>>] \o
  [i \in 1..4 |-> <<"Evict", 0>>]

Scenario(script) == [script |-> script, pos |-> 0, victims |-> << >>]

ScenStart(k, third) ==
  /\ replacer = NewReplacer(7, k)
  /\ rep_ret = [op |-> "init", frame |-> NoFrame, ok |-> TRUE]
  /\ rep_ghost = GhostInit
  /\ scen = Scenario(ScenarioScript(third))

ScenRecordAccess ==
  /\ scen.pos < Len(scen.script)
  /\ scen.script[scen.pos + 1][1] = "RecordAccess"
  /\ LET f == scen.script[scen.pos + 1][2] IN
       /\ replacer' = RecordAccess(replacer, f)
       /\ rep_ret' = [op |-> "RecordAccess", frame |-> f,
                      ok |-> ~RecordAccessThrows(replacer, f)]
  /\ scen' = [scen EXCEPT !.pos = @ + 1]
  /\ UNCHANGED rep_ghost

ScenSetEvictable ==
  /\ scen.pos < Len(scen.script)
  /\ scen.script[scen.pos + 1][1] = "SetEvictable"
  /\ LET f == scen.script[scen.pos + 1][2] IN
       /\ replacer' = SetEvictable(replacer, f, TRUE)
       /\ rep_ret' = [op |-> "SetEvictable", frame |-> f,
                      ok |-> ~SetEvictableAsserts(replacer, f)]
  /\ scen' = [scen EXCEPT !.pos = @ + 1]
  /\ UNCHANGED rep_ghost

ScenEvict ==
  /\ scen.pos < Len(scen.script)
  /\ scen.script[scen.pos + 1][1] = "Evict"
  /\ replacer' = Evict(replacer)
  /\ rep_ret' = [op |-> "Evict", frame |-> EvictVictim(replacer),
                 ok |-> EvictVictim(replacer) # NoFrame]
  /\ scen' = [scen EXCEPT !.pos = @ + 1,
                          !.victims = Append(@, EvictVictim(replacer))]
  /\ UNCHANGED rep_ghost


(***************************************************************************)
(* The specifications.  Each runs one subsystem; the objects of the other  *)
(* subsystems stay as constructed.                                         *)
(***************************************************************************)
vars == <<replacer, rep_ret, rep_ghost, bpm, bpm_ret, bpm_rt,
          tree, tree_ret, present, tree_ops, lm, txns, lm_pc, lm_ret, lm_calls,
          scen, det, prog, conc>>

LmIdle == LmStart([t \in Txns |-> "REPEATABLE_READ"])

InitRep ==
  /\ \E k \in 1..MaxK : RepStart(k)
  /\ BpmStart(1, 1)
  /\ TreeStart(2, MaxInternal)
  /\ LmIdle
  /\ scen = Scenario(<< >>)
  /\ det = Detection(<< >>)
  /\ prog = << >>
  /\ conc = NoThreads

NextRep ==
  /\ \/ \E f \in RepFrames : RepRecordAccess(f)
     \/ \E f \in RepFrames, b \in BOOLEAN : RepSetEvictable(f, b)
     \/ RepEvict
     \/ \E f \in RepFrames : RepRemove(f)
  /\ UNCHANGED <<bpmvars, treevars, lmvars, scen, det, prog, conc>>

SpecRep == InitRep /\ [][NextRep]_vars

InitBPM ==
  /\ \E pool_size \in 1..MaxPool, k \in 1..MaxPoolK : BpmStart(pool_size, k)
  /\ RepStart(1)
  /\ TreeStart(2, MaxInternal)
  /\ LmIdle
  /\ scen = Scenario(<< >>)
  /\ det = Detection(<< >>)
  /\ prog = << >>
  /\ conc = NoThreads

NextBPM ==
  /\ \/ BpmNewPg
     \/ \E page_id \in PageIds, c \in Bytes : BpmWrite(page_id, c)
     \/ \E page_id \in PageIds : BpmFetchPg(page_id)
     \/ \E page_id \in PageIds, is_dirty \in BOOLEAN : BpmUnpinPg(page_id, is_dirty)
     \/ \E page_id \in PageIds : BpmFlushPg(page_id)
     \/ BpmFlushAllPgs
     \/ \E page_id \in PageIds : BpmDeletePg(page_id)
  /\ UNCHANGED <<repvars, treevars, lmvars, scen, det, prog, conc>>

SpecBPM == InitBPM /\ [][NextBPM]_vars

InitTree ==
  /\ \E leaf_max_size \in 2..MaxLeaf : TreeStart(leaf_max_size, MaxInternal)
  /\ RepStart(1)
  /\ BpmStart(1, 1)
  /\ LmIdle
  /\ scen = Scenario(<< >>)
  /\ det = Detection(<< >>)
  /\ prog = << >>
  /\ conc = NoThreads

NextTree ==
  /\ \/ \E key \in TreeKeys, value \in TreeVals : TreeInsert(key, value)
     \/ \E key \in TreeKeys : TreeRemoveKey(key)
     \/ \E key \in TreeKeys : TreeGetValue(key)
     \/ TreeScan
  /\ UNCHANGED <<repvars, bpmvars, lmvars, scen, det, prog, conc>>

SpecTree == InitTree /\ [][NextTree]_vars

InitConc ==
  /\ \E leaf_max_size \in 2..MaxLeaf : TreeStart(leaf_max_size, MaxInternal)
  /\ RepStart(1)
  /\ BpmStart(1, 1)
  /\ LmIdle
  /\ scen = Scenario(<< >>)
  /\ det = Detection(<< >>)
  /\ prog = << >>
  /\ conc = NoThreads

NextConc ==
  /\ \/ /\ conc = NoThreads /\ tree_ops < MaxSeqOps
        /\ \/ \E key \in TreeKeys, value \in TreeVals : TreeInsert(key, value)
           \/ \E key \in TreeKeys : TreeRemoveKey(key)
        /\ UNCHANGED conc
     \/ \E th \in Threads, op \in {"Insert", "Remove"},
           key \in TreeKeys, value \in TreeVals : ConcCall(th, op, key, value)
     \/ \E th \in Threads : ConcStartNewTree(th)
     \/ \E th \in Threads : ConcGetLeafPage(th)
     \/ \E th \in Threads : ConcAtLeaf(th)
  /\ UNCHANGED <<repvars, bpmvars, lmvars, scen, det, prog>>

SpecConc == InitConc /\ [][NextConc]_vars

InitLM ==
  /\ \E isolation \in [Txns -> IsolationLevels] : LmStart(isolation)
  /\ RepStart(1)
  /\ BpmStart(1, 1)
  /\ TreeStart(2, MaxInternal)
  /\ scen = Scenario(<< >>)
  /\ det = Detection(<< >>)
  /\ prog = << >>
  /\ conc = NoThreads

NextLM ==
  /\ \/ \E t \in Txns, lock_mode \in LockModes, oid \in Oids : LockTable(t, lock_mode, oid)
     \/ \E t \in Txns, lock_mode \in LockModes, rid \in Rids :
          LockRow(t, lock_mode, TableOf(rid), rid)
     \/ \E t \in Txns : LockWaitLoop(t)
     \/ \E t \in Txns : LockWakeUp(t)
     \/ \E t \in Txns : LockGranted(t)
     \/ \E t \in Txns, oid \in Oids : UnlockTable(t, oid)
     \/ \E t \in Txns, rid \in Rids : UnlockRow(t, TableOf(rid), rid)
     \/ \E t \in Txns : UnlockRowEnd(t)
     \/ \E t \in Txns : AbortWaiter(t)
     \/ \E t \in Txns : Commit(t)
  /\ UNCHANGED <<repvars, bpmvars, treevars, scen, det, prog, conc>>

SpecLM == InitLM /\ [][NextLM]_vars

InitScenario ==
  /\ \E k \in 1..MaxK, a \in 1..6, b \in 1..6 : ScenStart(k, <<a, b>>)
  /\ BpmStart(1, 1)
  /\ TreeStart(2, MaxInternal)
  /\ LmIdle
  /\ det = Detection(<< >>)
  /\ prog = << >>
  /\ conc = NoThreads

NextScenario ==
  /\ \/ ScenRecordAccess
     \/ ScenSetEvictable
     \/ ScenEvict
  /\ UNCHANGED <<bpmvars, treevars, lmvars, rep_ghost, det, prog, conc>>

SpecScenario == InitScenario /\ [][NextScenario]_vars

InitDetector ==
  /\ \E waits_for \in [0..(MaxGraph - 1) -> SUBSET (0..(MaxGraph - 1))] :
       det = Detection([t \in {u \in 0..(MaxGraph - 1) : waits_for[u] \ {u} # {}} |->
                          waits_for[t] \ {t}])
  /\ RepStart(1)
  /\ BpmStart(1, 1)
  /\ TreeStart(2, MaxInternal)
  /\ LmIdle
  /\ scen = Scenario(<< >>)
  /\ prog = << >>
  /\ conc = NoThreads

NextDetector ==
  /\ \/ DetHasCycle
     \/ DetEnd
  /\ UNCHANGED <<repvars, bpmvars, treevars, lmvars, scen, prog, conc>>

SpecDetector == InitDetector /\ [][NextDetector]_vars

InitLockRun ==
  /\ \E isolation \in [Txns -> IsolationLevels] : LmStart(isolation)
  /\ \E kind \in {"deadlock", "block", "upgrade", "alone", "upgrade_deadlock",
                 "row_deadlock", "upgrade_conflict"}, a \in Txns, b \in Txns :
       a # b /\ prog = Script(kind, a, b)
  /\ RepStart(1)
  /\ BpmStart(1, 1)
  /\ TreeStart(2, MaxInternal)
  /\ scen = Scenario(<< >>)
  /\ det = Detection(<< >>)
  /\ conc = NoThreads

NextLockRun ==
  /\ \/ \E t \in Txns : RunCall(t)
     \/ \E t \in Txns : RunStep(t)
     \/ \E t \in Txns : RunAbort(t)
     \/ RunDetector
  /\ UNCHANGED <<repvars, bpmvars, treevars, scen, det, conc>>

SpecLockRun == InitLockRun /\ [][NextLockRun]_vars

\* every thread that can take a step takes one in the end, and the detector
\* wakes up again and again
FairLockRun ==
  /\ SpecLockRun
  /\ \A t \in Txns :
       /\ WF_vars(RunCall(t) /\ UNCHANGED <<repvars, bpmvars, treevars, scen, det, conc>>)
       /\ WF_vars(RunStep(t) /\ UNCHANGED <<repvars, bpmvars, treevars, scen, det, conc>>)
       /\ WF_vars(RunAbort(t) /\ UNCHANGED <<repvars, bpmvars, treevars, scen, det, conc>>)
  /\ WF_vars(RunDetector /\ UNCHANGED <<repvars, bpmvars, treevars, scen, det, conc>>)

(***************************************************************************)
(* Properties of the replacer.                                             *)
(***************************************************************************)

\* C9: after any sequence of record_access, set_evictable, evict and remove
\* calls, size() equals the number of tracked frames that are evictable.
C9_SizeCountsEvictable ==
  Size(replacer) =
    Cardinality({f \in Tracked(replacer) : replacer.non_evictale[f]})

\* C10: for every K >= 1, evict() returns the least recently accessed evictable
\* frame among those with fewer than K accesses if there is one, and otherwise
\* the least recently accessed evictable frame among those with at least K
\* accesses.
C10_EvictLeastRecent ==
  [][ LET ev   == {f \in Tracked(replacer) : replacer.non_evictale[f]}
          hist == {f \in ev : rep_ghost[f].count < replacer.k}
          buf  == {f \in ev : rep_ghost[f].count >= replacer.k}
          lra(S) == CHOOSE f \in S : \A h \in S : rep_ghost[f].last <= rep_ghost[h].last
      IN (RepEvict /\ ev # {}) =>
            rep_ret'.frame = IF hist # {} THEN lra(hist) ELSE lra(buf) ]_vars

\* C11: evict() returns no frame if and only if no tracked frame is evictable;
\* a frame it returns was evictable before the call, is untracked after it (a
\* later record_access starts it again with one access in the history list),
\* and size() is one less than before.  size() is a size_t: it is one less
\* only when it was not 0, the stored integer being its residue modulo 2^64.
C11_EvictReturnsEvictable ==
  [][ RepEvict =>
        LET ev == {f \in Tracked(replacer) : replacer.non_evictale[f]}
            v  == rep_ret'.frame
        IN /\ (~rep_ret'.ok) <=> (ev = {})
           /\ rep_ret'.ok =>
                /\ v \in ev
                /\ v \notin Tracked(replacer')
                /\ ~InHistory(replacer', v) /\ ~InBuffer(replacer', v)
                /\ RecordAccess(replacer', v).history[1] = <<v, 1>>
                /\ Size(replacer) # 0
                /\ Size(replacer') = Size(replacer) - 1 ]_vars

\* C12 as stated: with k = 2, after the accesses of 1..6, the marking of
\* 1..6 as evictable, the second accesses of 1..5 and the accesses of 3 and 4,
\* the four Evict calls return 6, 1, 5, 2
C12_VictimsAsStated ==
  (/\ replacer.k = 2
   /\ scen.script = ScenarioScript(<<3, 4>>)
   /\ scen.pos = Len(scen.script))
    => scen.victims = <<6, 1, 5, 2>>

\* C12: in that run the four Evict calls return 6, 1, 2, 5: frame 6 is the
\* only frame of the history list, then the buffer list gives its frames from
\* the least recently accessed one
C12_VictimsByRecency ==
  (/\ replacer.k = 2
   /\ scen.script = ScenarioScript(<<3, 4>>)
   /\ scen.pos = Len(scen.script))
    => scen.victims = <<6, 1, 2, 5>>

C12_Witness ==
  /\ replacer.k = 2
  /\ scen.script = ScenarioScript(<<3, 4>>)
  /\ scen.pos = Len(scen.script)
  /\ Len(scen.victims) = 4
  /\ rep_ret.op = "Evict" /\ rep_ret.frame = 5

\* C26: record_access(frame) with frame >= capacity, frame = capacity
\* included, fails with the invalid-frame error and leaves the replacer as it
\* was.
C26_RecordAccessRejects ==
  [][ \A f \in RepFrames :
        (RepRecordAccess(f) /\ f >= replacer.replacer_size) =>
           (~rep_ret'.ok /\ replacer' = replacer) ]_vars

\* C27: remove(frame) on a tracked frame that is not evictable fails and
\* leaves the replacer as it was; on a tracked frame that is evictable it
\* forgets the frame and size() goes down by one; on a frame that is not
\* tracked it changes nothing.
C27_RemoveOnlyEvictable ==
  [][ \A f \in RepFrames :
        RepRemove(f) =>
          IF f \notin Tracked(replacer) THEN replacer' = replacer
          ELSE IF ~replacer.non_evictale[f]
            THEN ~rep_ret'.ok /\ replacer' = replacer
          ELSE /\ f \notin Tracked(replacer')
               /\ ~InHistory(replacer', f) /\ ~InBuffer(replacer', f)
               /\ Size(replacer') = Size(replacer) - 1 ]_vars

\* C40: for every K >= 1, K = 1 included, a tracked frame is in the history
\* list if and only if it was accessed fewer than K times since it was last
\* untracked, and in the buffer list if and only if it was accessed at least
\* K times; every tracked frame is in exactly one of the two lists.
C40_ListsByAccessCount ==
  \A f \in Tracked(replacer) :
    /\ InHistory(replacer, f) <=> rep_ghost[f].count < replacer.k
    /\ InBuffer(replacer, f) <=> rep_ghost[f].count >= replacer.k
    /\ InHistory(replacer, f) # InBuffer(replacer, f)

(***************************************************************************)
(* Properties of the buffer pool.                                          *)
(***************************************************************************)
Frames == 0..(bpm.pool_size - 1)

InFreeList(f) == \E i \in 1..Len(bpm.free_list) : bpm.free_list[i] = f

Pinned(f) == bpm.pages[f].pin_count > 0

EvictableInReplacer(f) ==
  f \in Tracked(bpm.replacer) /\ bpm.replacer.non_evictale[f]

\* C2: a fetch_page of a page that is resident with pin_count = n leaves its
\* pin_count at n + 1.
C2_FetchAddsOnePin ==
  [][ \A page_id \in PageIds :
        (BpmFetchPg(page_id) /\ TableFind(bpm.page_table, page_id)) =>
           bpm'.pages[bpm.page_table[page_id]].pin_count =
             bpm.pages[bpm.page_table[page_id]].pin_count + 1 ]_vars

\* C3: the fetch_page that ends a new_page, write, unpin_page(dirty),
\* flush_page, fetch_page round trip of a page returns the bytes written.
C3_RoundTrip == bpm_rt.phase = "fetched" => bpm_rt.got = bpm_rt.bytes

\* C7: every frame is in exactly one of the groups: in the free list, pinned,
\* unpinned and evictable in the replacer.
C7_FramePartition ==
  \A f \in Frames :
    /\ InFreeList(f) \/ Pinned(f) \/ (~Pinned(f) /\ EvictableInReplacer(f))
    /\ ~(InFreeList(f) /\ Pinned(f))
    /\ ~(InFreeList(f) /\ ~Pinned(f) /\ EvictableInReplacer(f))

C24_UnpinOrsDirty ==
  [][ \A page_id \in PageIds, is_dirty \in BOOLEAN :
        (BpmUnpinPg(page_id, is_dirty) /\ bpm_ret'.ok) =>
          LET frame_id == bpm.page_table[page_id] IN
            bpm'.pages[frame_id].is_dirty
              = (bpm.pages[frame_id].is_dirty \/ is_dirty) ]_vars

\* C25: after flush_all() no page of the page table is dirty, and the disk
\* holds, under its page id, the bytes of every page that was in the page
\* table and dirty before the call.
C25_FlushAllCleans ==
  [][ BpmFlushAllPgs =>
        \A page_id \in DOMAIN bpm.page_table :
          LET frame_id == bpm.page_table[page_id] IN
            /\ ~bpm'.pages[frame_id].is_dirty
            /\ bpm.pages[frame_id].is_dirty =>
                 DiskRead(bpm'.disk, page_id) = bpm.pages[frame_id].data ]_vars

\* C29: a new_page or fetch_page that takes its frame from the replacer
\* writes the bytes of a dirty victim to disk under the page id the page
\* table has for the victim's frame, and removes that page id from the page
\* table.
C29_VictimWrittenBack ==
  [][ \A page_id \in PageIds :
        (/\ BpmNewPg \/ (BpmFetchPg(page_id) /\ ~TableFind(bpm.page_table, page_id))
         /\ bpm_ret'.ok
         /\ bpm.free_list = << >>)
        =>
        \A victim \in DOMAIN bpm.page_table :
          bpm.page_table[victim] = EvictVictim(bpm.replacer) =>
            /\ bpm.pages[bpm.page_table[victim]].is_dirty =>
                 DiskRead(bpm'.disk, victim) = bpm.pages[bpm.page_table[victim]].data
            /\ ~TableFind(bpm'.page_table, victim) ]_vars

\* C30: the page table agrees with the frames: the frame a page id is mapped
\* to has that page id in its page_id_ field, and no two page ids are mapped
\* to one frame; a fetch_page of a page that is not in the page table returns
\* a page with that page id and the bytes the disk holds for it.
C30_PageTableAgrees ==
  [][ /\ \A p \in DOMAIN bpm'.page_table :
           /\ bpm'.pages[bpm'.page_table[p]].page_id = p
           /\ \A q \in DOMAIN bpm'.page_table :
                bpm'.page_table[q] = bpm'.page_table[p] => q = p
      /\ \A page_id \in PageIds :
           (/\ BpmFetchPg(page_id)
            /\ ~TableFind(bpm.page_table, page_id)
            /\ bpm_ret'.ok)
           => LET f == bpm'.page_table[page_id] IN
                /\ bpm'.pages[f].page_id = page_id
                /\ bpm'.pages[f].data = DiskRead(bpm'.disk, page_id) ]_vars

(***************************************************************************)
(* Properties of the tree.                                                 *)
(***************************************************************************)
\* C4: a scan from begin() to the end yields exactly the keys that are in the
\* tree, each once, in ascending order.
C4_ScanYieldsPresentKeys ==
  tree_ret.op = "Scan" =>
    ~tree_ret.overrun /\ tree_ret.keys = SortedSeq(DOMAIN present)

\* C5: get(k) returns the value v if and only if the pair (k, v) is in the tree.
C5_GetIffPresent ==
  tree_ret.op = "GetValue" =>
    /\ tree_ret.ok <=> tree_ret.key \in DOMAIN present
    /\ tree_ret.ok => tree_ret.value = present[tree_ret.key]

\* C6: insert(key, value) returns false and leaves the tree unchanged if and
\* only if key is in the tree; otherwise it returns true and the key is in
\* the tree with that value afterwards.
C6_InsertFalseIffPresent ==
  [][ \A key \in TreeKeys, value \in TreeVals :
        TreeInsert(key, value) =>
          /\ (~tree_ret'.ok) <=> (key \in DOMAIN present)
          /\ (~tree_ret'.ok) => tree' = tree
          /\ tree_ret'.ok => GetValue(tree', key) = [found |-> TRUE, value |-> value]
    ]_vars

\* the pages of the subtree rooted at page_id
RECURSIVE Subtree(_, _)
Subtree(t, page_id) ==
  LET n == t.pages[page_id] IN
  IF n.is_leaf THEN {page_id}
  ELSE {page_id} \cup
       UNION {Subtree(t, ValueAt(n, i)) : i \in 0..(n.size - 1)}

\* C23: after every Insert and every Remove, every node of the tree other
\* than the root has GetMinSize() <= size <= max_size, where GetMinSize() is
\* max_size / 2 rounded up.
C23_NodeSizes ==
  ~IsEmpty(tree) =>
    \A page_id \in Subtree(tree, tree.root_page_id) \ {tree.root_page_id} :
      LET n == tree.pages[page_id] IN
        /\ (n.max_size + 1) \div 2 <= n.size
        /\ n.size <= n.max_size

\* the pairs GetValue finds in a tree
Content(t) ==
  LET found == {k \in TreeKeys : ~IsEmpty(t) /\ GetValue(t, k).found}
  IN [k \in found |-> GetValue(t, k).value]

\* the tree after the call c of a thread, made alone
AfterCall(t, c) ==
  IF c.op = "Insert" THEN Insert(t, c.key, c.value).t ELSE TreeRemove(t, c.key)

\* C28: when the Insert or Remove calls of the two threads have returned,
\* the tree holds the pairs it holds after the two calls are made one after
\* the other, in one of the two orders, on the tree the threads started from.
C28_SerialOutcome ==
  (/\ DOMAIN conc.thr = Threads
   /\ \A th \in Threads : conc.thr[th].pc = "done")
    => \/ Content(tree) = Content(AfterCall(AfterCall(conc.base, conc.thr[1]),
                                            conc.thr[2]))
       \/ Content(tree) = Content(AfterCall(AfterCall(conc.base, conc.thr[2]),
                                            conc.thr[1]))

\* C37: after an Insert, a Remove or a GetValue on a non-empty tree has
\* returned, every page was unpinned as often as the call pinned it with
\* FetchPage or NewPage, on every path: leaf split, internal split, new root,
\* redistribution and merge with recursion into the parent.
C37_PinsBalanced ==
  tree_ret.op \in {"Insert", "Remove", "GetValue"} => tree_ret.pins = NoPins

C39_BeginAtLowerBound ==
  ~IsEmpty(tree) /\ present # << >> =>
    \A key \in TreeKeys :
      LET it == BeginAt(tree, key)
          leaf == tree.pages[it.page]
          from_key == {k \in DOMAIN present : k >= key}
          walk == WalkFrom(tree, it,
                           GetLeafPagePins(tree, NoPins, tree.root_page_id, key),
                           Cardinality(TreeKeys) + 2)
      IN /\ \/ IsEnd(tree, it)
            \/ /\ it.index < leaf.size
               /\ from_key # {}
               /\ KeyAt(leaf, it.index) = MinOf(from_key)
         /\ ~walk.overrun
         /\ walk.keys = SortedSeq(from_key)

(***************************************************************************)
(* Properties of the lock manager.                                         *)
(***************************************************************************)
Compatible(a, b) ==
  \/ a = "IS" /\ b \in {"IS", "IX", "S", "SIX"}
  \/ b = "IS" /\ a \in {"IS", "IX", "S", "SIX"}
  \/ a = "IX" /\ b = "IX"
  \/ a = "S" /\ b = "S"

AllQueues ==
  {lm.table_lock_map[oid] : oid \in DOMAIN lm.table_lock_map}
    \cup {lm.row_lock_map[rid] : rid \in DOMAIN lm.row_lock_map}

\* C1: in every table queue and every row queue, any two granted requests of
\* different transactions have compatible modes.
C1_GrantedCompatible ==
  \A queue \in AllQueues :
    \A i, j \in 1..Len(queue.request_queue) :
      LET a == queue.request_queue[i]
          b == queue.request_queue[j]
      IN (a.granted /\ b.granted /\ a.txn_id # b.txn_id) =>
            Compatible(a.lock_mode, b.lock_mode)

C14_UpgradeGraph ==
  [][ \A t \in Txns, lock_mode \in LockModes, kind \in {"table", "row"}, key \in Oids \cup Rids :
        LET que == QueueOf(lm, kind, key)
            held == {que.request_queue[i].lock_mode : i \in
                       {j \in 1..Len(que.request_queue) :
                          /\ que.request_queue[j].txn_id = t
                          /\ que.request_queue[j].granted}}
            graph == {<<"IS", "S">>, <<"IS", "X">>, <<"IS", "IX">>, <<"IS", "SIX">>,
                      <<"S", "X">>, <<"S", "SIX">>, <<"IX", "X">>, <<"IX", "SIX">>,
                      <<"SIX", "X">>}
            early == {"LOCK_SHARED_ON_READ_UNCOMMITTED", "LOCK_ON_SHRINKING",
                      "ATTEMPTED_INTENTION_LOCK_ON_ROW", "TABLE_LOCK_NOT_PRESENT"}
        IN
        (/\ \/ kind = "table" /\ key \in Oids /\ LockTable(t, lock_mode, key)
            \/ kind = "row" /\ key \in Rids
               /\ \E oid \in Oids : LockRow(t, lock_mode, oid, key)
         /\ lm_ret'.reason \notin early
         /\ held # {} /\ lock_mode \notin held)
        =>
        \A m \in held :
          IF <<m, lock_mode>> \in graph
            THEN \/ /\ lm_ret'.result = "pending"
                    /\ lm_pc'[t].is_upgrade
                    /\ QueueOf(lm', kind, key).upgrading = t
                 \/ lm_ret'.result = "throw" /\ lm_ret'.reason = "UPGRADE_CONFLICT"
            ELSE /\ lm_ret'.result = "throw"
                 /\ lm_ret'.reason = "INCOMPATIBLE_UPGRADE"
                 /\ txns'[t] = SetAborted(txns[t])
                 /\ lm' = lm ]_vars

\* a holder of IX was refused IS on a table while the upgrade of another
\* transaction is in flight on it, and keeps its IX lock
C14_Witness ==
  /\ lm_ret.op = "LockTable" /\ lm_ret.reason = "INCOMPATIBLE_UPGRADE"
  /\ lm_ret.txn \in Txns
  /\ \E oid \in Oids :
       /\ <<"IX", oid>> \in txns[lm_ret.txn].table_lock_set
       /\ FindRequest(QueueOf(lm, "table", oid).request_queue, lm_ret.txn, oid, {TRUE}) # 0
       /\ QueueOf(lm, "table", oid).upgrading \notin {INVALID_TXN_ID, lm_ret.txn}

\* C15: a LockTable or LockRow call throws UPGRADE_CONFLICT exactly when the
\* caller holds a lock of another mode on the object, the change of mode is an
\* upgrade, and the upgrade of another transaction is in flight on the queue;
\* a caller without a lock on the object never gets UPGRADE_CONFLICT.
C15_UpgradeConflict ==
  [][ \A t \in Txns, lock_mode \in LockModes, kind \in {"table", "row"}, key \in Oids \cup Rids :
        LET que == QueueOf(lm, kind, key)
            held == {que.request_queue[i].lock_mode : i \in
                       {j \in 1..Len(que.request_queue) :
                          /\ que.request_queue[j].txn_id = t
                          /\ que.request_queue[j].granted}}
            early == {"LOCK_SHARED_ON_READ_UNCOMMITTED", "LOCK_ON_SHRINKING",
                      "ATTEMPTED_INTENTION_LOCK_ON_ROW", "TABLE_LOCK_NOT_PRESENT"}
            conflict == lm_ret'.result = "throw" /\ lm_ret'.reason = "UPGRADE_CONFLICT"
        IN
        (/\ \/ kind = "table" /\ key \in Oids /\ LockTable(t, lock_mode, key)
            \/ kind = "row" /\ key \in Rids
               /\ \E oid \in Oids : LockRow(t, lock_mode, oid, key)
         /\ lm_ret'.reason \notin early)
        =>
        /\ conflict => /\ held # {} /\ lock_mode \notin held
                       /\ que.upgrading \notin {INVALID_TXN_ID, t}
        /\ (/\ \E m \in held : m # lock_mode /\ CheckPreLock(m, lock_mode)
            /\ que.upgrading \notin {INVALID_TXN_ID, t}) => conflict ]_vars

\* C19: an UnlockTable or UnlockRow call that returns true makes a GROWING
\* transaction SHRINKING if and only if it is REPEATABLE_READ and the mode
\* released is S or X, or it is READ_COMMITTED or READ_UNCOMMITTED and the mode
\* released is X; the release of IS, IX or SIX leaves the state as it was, and
\* so does any release by a COMMITTED or ABORTED transaction.
C19_UnlockShrinks ==
  [][ \A t \in Txns, lock_mode \in LockModes :
        (\/ \E oid \in Oids :
              /\ UnlockTable(t, oid)
              /\ lm_ret'.result = "true"
              /\ LET q == QueueOf(lm, "table", oid).request_queue
                 IN q[FindRequest(q, t, oid, {TRUE})].lock_mode = lock_mode
         \/ UnlockRowEnd(t) /\ lm_pc[t].lock_mode = lock_mode)
        =>
        LET shrinks ==
              \/ txns[t].isolation = "REPEATABLE_READ" /\ lock_mode \in {"S", "X"}
              \/ /\ txns[t].isolation \in {"READ_COMMITTED", "READ_UNCOMMITTED"}
                 /\ lock_mode = "X"
        IN /\ txns[t].state = "GROWING" =>
                txns'[t].state = IF shrinks THEN "SHRINKING" ELSE "GROWING"
           /\ lock_mode \in {"IS", "IX", "SIX"} => txns'[t].state = txns[t].state
           /\ txns[t].state \in {"COMMITTED", "ABORTED"} =>
                txns'[t].state = txns[t].state ]_vars

\* a COMMITTED transaction has just released a lock and is still COMMITTED,
\* and a READ_COMMITTED transaction is SHRINKING
C19_Witness ==
  /\ lm_ret.op \in {"UnlockTable", "UnlockRow"} /\ lm_ret.result = "true"
  /\ lm_ret.txn \in Txns
  /\ txns[lm_ret.txn].state = "COMMITTED"
  /\ \E u \in Txns :
       txns[u].isolation = "READ_COMMITTED" /\ txns[u].state = "SHRINKING"

\* C20: no step of the lock manager takes a transaction that is not GROWING
\* back to GROWING, and a SHRINKING transaction stays SHRINKING or becomes
\* ABORTED or COMMITTED.
C20_StateMonotonic ==
  [][ \A t \in Txns :
        /\ txns[t].state # "GROWING" => txns'[t].state # "GROWING"
        /\ txns[t].state = "SHRINKING" =>
             txns'[t].state \in {"SHRINKING", "ABORTED", "COMMITTED"} ]_vars

\* a SHRINKING transaction has acquired a lock and released one that does not
\* make it shrink, and is still SHRINKING
C20_Witness ==
  /\ lm_ret.op = "UnlockTable" /\ lm_ret.result = "true"
  /\ lm_ret.txn \in Txns
  /\ txns[lm_ret.txn].state = "SHRINKING"
  /\ txns[lm_ret.txn].isolation = "READ_COMMITTED"
  /\ txns[lm_ret.txn].table_lock_set = {}
  /\ lm_calls >= 4

\* C21: UnlockTable(oid) by a transaction whose row lock set holds a row of
\* the table throws TABLE_UNLOCKED_BEFORE_UNLOCKING_ROWS: the transaction is
\* ABORTED, the queues (the table's request queue with it) and the lock sets
\* are as they were, and the thread holds no latch.
C21_UnlockTableWithRows ==
  [][ \A t \in Txns, oid \in Oids :
        (/\ UnlockTable(t, oid)
         /\ \E l \in txns[t].row_lock_set : l[2] = oid)
        =>
        /\ lm_ret' = Returned(t, "UnlockTable", "throw",
                              "TABLE_UNLOCKED_BEFORE_UNLOCKING_ROWS")
        /\ txns'[t].state = "ABORTED"
        /\ txns'[t].table_lock_set = txns[t].table_lock_set
        /\ txns'[t].row_lock_set = txns[t].row_lock_set
        /\ \A kind \in {"table", "row"}, key \in Oids \cup Rids :
             /\ QueueOf(lm', kind, key).request_queue
                  = QueueOf(lm, kind, key).request_queue
             /\ QueueOf(lm', kind, key).latch # t
        /\ lm_pc'[t].pc = "idle" ]_vars

\* a transaction that held a table lock and a row lock of the table has
\* called UnlockTable: the call threw, and both locks are still in the queues
C21_Witness ==
  /\ lm_ret.op = "UnlockTable"
  /\ lm_ret.reason = "TABLE_UNLOCKED_BEFORE_UNLOCKING_ROWS"
  /\ lm_ret.txn \in Txns
  /\ \E oid \in Oids :
       /\ \E l \in txns[lm_ret.txn].row_lock_set : l[2] = oid
       /\ FindRequest(QueueOf(lm, "table", oid).request_queue,
                       lm_ret.txn, oid, {TRUE}) # 0

C31_ArrivalOrder ==
  [][ /\ \A t \in Txns :
           (lm_pc[t].pc = "idle" /\ lm_pc'[t].pc = "check")
             => LET f == lm_pc'[t]
                    new == QueueOf(lm', f.kind, f.key).request_queue
                    mine == FindRequest(new, t, f.oid, {FALSE})
                IN \A i \in 1..Len(new) :
                     /\ (~f.is_upgrade /\ new[i].txn_id # t /\ ~new[i].granted)
                          => i < mine
                     /\ (f.is_upgrade /\ new[i].txn_id # t /\ ~new[i].granted)
                          => mine < i
                     /\ (f.is_upgrade /\ new[i].granted) => i < mine
      /\ \A kind \in {"table", "row"}, key \in Oids \cup Rids :
           LET q == QueueOf(lm', kind, key).request_queue
           IN \A i \in 1..Len(q), j \in 1..Len(q) :
                (i < j /\ q[j].granted) => q[i].granted ]_vars


\* C34: a call releases every latch it has taken exactly once: when the
\* thread of t is outside a call no queue's latch is held by t, and a step of
\* t that unlocks the latch of a queue (going into cv_.wait, the end of a
\* granted call, the second half of UnlockRow) is taken while t holds it.
\* (The map latches are taken and released inside one step.)
C34_LatchesReleasedOnce ==
  [][ \A t \in Txns :
        /\ lm_pc'[t].pc = "idle"
             => \A kind \in {"table", "row"}, key \in Oids \cup Rids :
                  QueueOf(lm', kind, key).latch # t
        /\ (\/ lm_pc[t].pc = "check" /\ lm_pc'[t].pc = "wait"
            \/ lm_pc[t].pc = "grant" /\ lm_pc'[t].pc = "idle"
            \/ lm_pc[t].pc = "unlocked" /\ lm_pc'[t].pc = "idle")
             => QueueOf(lm, lm_pc[t].kind, lm_pc[t].key).latch = t ]_vars


\* C35: whenever the thread of t is outside a call or waits inside one, a
\* granted request of t in the queue of a row of table oid comes with a
\* granted request of t in the queue of the table: of mode X, IX or SIX when
\* the row lock is X, of any mode when it is S.
C35_RowLockUnderTableLock ==
  \A t \in Txns, rid \in Rids :
    lm_pc[t].pc \in {"idle", "wait", "notified"} =>
      LET rows == QueueOf(lm, "row", rid).request_queue IN
      \A i \in 1..Len(rows) :
        (rows[i].txn_id = t /\ rows[i].granted) =>
          LET q == QueueOf(lm, "table", rows[i].oid).request_queue IN
          \E j \in 1..Len(q) :
            /\ q[j].txn_id = t /\ q[j].granted
            /\ rows[i].lock_mode = "X" => q[j].lock_mode \in {"X", "IX", "SIX"}


\* C36: whenever the thread of t is outside a call, the lock sets of t are
\* the granted requests of t in the queues: <<m, oid>> is in the table lock
\* set iff the queue of oid has a granted request of t of mode m, <<m, oid,
\* rid>> is in the row lock set iff the queue of rid has a granted request of
\* t on oid of mode m, and no queue holds two requests of t.
C36_LockSetsAgreeWithQueues ==
  \A t \in Txns :
    lm_pc[t].pc = "idle" =>
      /\ \A lock_mode \in LockModes, oid \in Oids :
           <<lock_mode, oid>> \in txns[t].table_lock_set
             <=> LET q == QueueOf(lm, "table", oid).request_queue IN
                 \E i \in 1..Len(q) :
                   /\ q[i].txn_id = t /\ q[i].granted
                   /\ q[i].lock_mode = lock_mode /\ q[i].oid = oid
      /\ \A lock_mode \in LockModes, oid \in Oids, rid \in Rids :
           <<lock_mode, oid, rid>> \in txns[t].row_lock_set
             <=> LET q == QueueOf(lm, "row", rid).request_queue IN
                 \E i \in 1..Len(q) :
                   /\ q[i].txn_id = t /\ q[i].granted
                   /\ q[i].lock_mode = lock_mode /\ q[i].oid = oid
      /\ \A kind \in {"table", "row"}, key \in Oids \cup Rids :
           LET q == QueueOf(lm, kind, key).request_queue IN
           \A i \in 1..Len(q), j \in 1..Len(q) :
             (q[i].txn_id = t /\ q[j].txn_id = t) => i = j

\* t's upgrade of its table lock has thrown UPGRADE_CONFLICT, which took its
\* old request out of the queue and of the lock set, and t still holds a row
\* lock
C36_Witness ==
  \E t \in Txns :
    /\ lm_ret = Returned(t, "LockTable", "throw", "UPGRADE_CONFLICT")
    /\ lm_pc[t].pc = "idle"
    /\ txns[t].table_lock_set = {}
    /\ txns[t].row_lock_set # {}

(***************************************************************************)
(* Properties of the deadlock detector.                                    *)
(***************************************************************************)
\* c is a cycle of the graph: each of its transactions waits for the next
\* one, and the last one for the first
IsCycle(waits_for, c) ==
  /\ Len(c) >= 1
  /\ \A n \in 1..Len(c) :
       /\ c[n] \in DOMAIN waits_for
       /\ c[(n % Len(c)) + 1] \in waits_for[c[n]]

InQueue(t, lock_mode, oid, granted) ==
  LET q == QueueOf(lm, "table", oid).request_queue IN
  \E i \in 1..Len(q) :
    /\ q[i].txn_id = t /\ q[i].lock_mode = lock_mode /\ q[i].granted = granted

\* a holds X on table 0 and asks for X on table 1, b holds X on table 1 and
\* asks for X on table 0, and neither request is granted
Deadlocked(a, b) ==
  /\ InQueue(a, "X", 0, TRUE) /\ InQueue(b, "X", 1, TRUE)
  /\ InQueue(a, "X", 1, FALSE) /\ InQueue(b, "X", 0, FALSE)

\* C17: from the deadlock of A and B on two tables, with the detector
\* running, the run reaches the state in which the transaction with the
\* larger id is ABORTED, its second LockTable call has returned false and its
\* locks are released, and the second LockTable call of the other transaction
\* has returned true and it holds X on both tables.
C17_DeadlockResolved ==
  (\E a \in Txns, b \in Txns : a < b /\ (Deadlocked(a, b) \/ Deadlocked(b, a)))
    ~> (\E a \in Txns, b \in Txns :
          /\ a < b
          /\ txns[b].state = "ABORTED"
          /\ prog[b].results = <<"true", "false">>
          /\ txns[b].table_lock_set = {}
          /\ txns[a].state = "GROWING"
          /\ prog[a].results = <<"true", "true">>
          /\ txns[a].table_lock_set = {<<"X", 0>>, <<"X", 1>>}
          /\ InQueue(a, "X", 0, TRUE) /\ InQueue(a, "X", 1, TRUE)
          /\ lm_pc[a].pc = "idle" /\ lm_pc[b].pc = "idle")

\* the deadlock is there, the larger transaction is ABORTED and still inside
\* its call
C17_Witness ==
  \E a \in Txns, b \in Txns :
    /\ a < b
    /\ Deadlocked(a, b) \/ Deadlocked(b, a)
    /\ txns[b].state = "ABORTED"
    /\ lm_pc[b].pc = "notified"
    /\ lm_ret.op = "RunCycleDetection" /\ lm_ret.txn = b

\* C18: a request is not granted while another transaction holds a lock on
\* the table that conflicts with it, and it is granted after the holder has
\* unlocked: (a) A holds S and B asks for X: B's call returns true after A's
\* unlock; (b) A and B hold S and A asks for X: A's call returns true, and A
\* holds X, after B's unlock; when no other transaction holds a lock, the
\* call of A does not wait.
C18_BlockedUntilUnlock ==
  /\ [](/\ \A a \in Txns, b \in Txns :
             (a # b /\ InQueue(a, "X", 0, TRUE)) =>
               \A lock_mode \in LockModes : ~InQueue(b, lock_mode, 0, TRUE)
        /\ \A a \in Txns :
             (\A b \in Txns \ {a} : prog[b].calls = << >> /\ prog[b].results = << >>)
               => lm_pc[a].pc \notin {"wait", "notified"})
  /\ (\E a \in Txns, b \in Txns :
        /\ a # b
        /\ InQueue(a, "S", 0, TRUE) /\ InQueue(b, "X", 0, FALSE)
        /\ prog[b].results = << >>
        /\ prog[a].calls = <<<<"UnlockTable", "S", 0>>>>)
       ~> (\E a \in Txns, b \in Txns :
             /\ a # b
             /\ prog[b].results = <<"true">>
             /\ <<"X", 0>> \in txns[b].table_lock_set
             /\ prog[a].results = <<"true", "true">>)
  /\ (\E a \in Txns, b \in Txns :
        /\ a # b
        /\ InQueue(b, "S", 0, TRUE) /\ InQueue(a, "X", 0, FALSE)
        /\ prog[a].results = <<"true">>
        /\ prog[b].calls = <<<<"UnlockTable", "S", 0>>>>)
       ~> (\E a \in Txns, b \in Txns :
             /\ a # b
             /\ prog[a].results = <<"true", "true">>
             /\ txns[a].table_lock_set = {<<"X", 0>>}
             /\ prog[b].results = <<"true", "true">> /\ prog[b].calls = << >>
             /\ txns[b].table_lock_set = {})
  /\ (\E a \in Txns :
        /\ \A b \in Txns \ {a} : prog[b].calls = << >> /\ prog[b].results = << >>
        /\ prog[a].results = <<"true">>
        /\ prog[a].calls = <<<<"LockTable", "X", 0>>>>)
       ~> (\E a \in Txns :
             /\ \A b \in Txns \ {a} : prog[b].calls = << >> /\ prog[b].results = << >>
             /\ prog[a].results = <<"true", "true">>
             /\ txns[a].table_lock_set = {<<"X", 0>>})

\* A has asked for the upgrade to X while B holds S, and waits
C18_Witness ==
  \E a \in Txns, b \in Txns :
    /\ a # b
    /\ InQueue(b, "S", 0, TRUE) /\ InQueue(a, "X", 0, FALSE)
    /\ lm_pc[a].pc = "wait" /\ lm_pc[a].is_upgrade
    /\ prog[b].calls = <<<<"UnlockTable", "S", 0>>>>


\* the requests of t that are not granted, and the queues t is upgrading in
Leftover(t) ==
  \E q \in {lm.table_lock_map[k] : k \in DOMAIN lm.table_lock_map}
             \cup {lm.row_lock_map[k] : k \in DOMAIN lm.row_lock_map} :
    \/ q.upgrading = t
    \/ \E i \in 1..Len(q.request_queue) :
         q.request_queue[i].txn_id = t /\ ~q.request_queue[i].granted

\* C32: a transaction that is set ABORTED by the detector while its thread is
\* inside the wait loop of LockTable or LockRow (before the grant check,
\* inside cv_.wait, or notified) gets out of the call in the end: the call
\* returns false, none of its requests is left waiting and no queue has it as
\* upgrading_; the step that returns false removes the request, resets
\* upgrading_ and notifies the threads that wait on the queue.
C32_AbortedWaiterReturns ==
  /\ [][ \A t \in Txns :
           (/\ lm_pc[t].pc # "idle" /\ lm_pc'[t].pc = "idle"
            /\ lm_ret'.txn = t /\ lm_ret'.result = "false")
             => LET f == lm_pc[t]
                    q == QueueOf(lm', f.kind, f.key)
                IN /\ txns[t].state = "ABORTED"
                   /\ q.upgrading # t
                   /\ \A i \in 1..Len(q.request_queue) :
                        q.request_queue[i].txn_id # t
                   /\ \A u \in Txns \ {t} :
                        (/\ lm_pc[u].pc = "wait"
                         /\ lm_pc[u].kind = f.kind /\ lm_pc[u].key = f.key)
                          => lm_pc'[u].pc = "notified" ]_vars
  /\ \A t \in Txns :
       (/\ txns[t].state = "ABORTED"
        /\ lm_pc[t].pc \in {"check", "wait", "notified"})
         ~> (/\ lm_pc[t].pc = "idle"
             /\ prog[t].results # << >>
             /\ prog[t].results[Len(prog[t].results)] = "false"
             /\ ~Leftover(t))

\* the detector has set t ABORTED and notified the queues while t was about
\* to evaluate GrantLock; t has gone into cv_.wait after that
C32_Witness ==
  \E t \in Txns :
    /\ txns[t].state = "ABORTED"
    /\ lm_pc[t].pc = "wait"
    /\ lm_ret = Returned(t, "RunCycleDetection", "true", "")


\* C33: when A and B hold S on table 0, B has asked for X and waits for A,
\* and A then asks for X as well, A's call throws UPGRADE_CONFLICT, A is
\* ABORTED, and B's call returns true with B holding X in the end; and a
\* step that takes a granted request of a transaction out of a queue, leaving
\* no request of that transaction in it, notifies the threads that wait on
\* the queue.
C33_UpgradeConflictFreesWaiter ==
  /\ [][ \A t \in Txns, kind \in {"table", "row"}, key \in {0, 1} :
           LET old == QueueOf(lm, kind, key).request_queue
               new == QueueOf(lm', kind, key).request_queue
           IN (/\ \E i \in 1..Len(old) : old[i].txn_id = t /\ old[i].granted
               /\ \A i \in 1..Len(new) : new[i].txn_id # t)
                => \A u \in Txns \ {t} :
                     (/\ lm_pc[u].pc = "wait"
                      /\ lm_pc[u].kind = kind /\ lm_pc[u].key = key)
                       => lm_pc'[u].pc = "notified" ]_vars
  /\ (\E a \in Txns, b \in Txns :
        /\ a # b
        /\ InQueue(a, "S", 0, TRUE) /\ InQueue(b, "X", 0, FALSE)
        /\ lm_pc[b].pc \in {"check", "wait", "notified"} /\ lm_pc[b].is_upgrade
        /\ prog[a].calls = <<<<"LockTable", "X", 0>>>>
        /\ prog[b].calls = << >>)
       ~> (\E a \in Txns, b \in Txns :
             /\ a # b
             /\ txns[a].state = "ABORTED"
             /\ prog[a].results = <<"true", "throw">>
             /\ prog[b].results = <<"true", "true">>
             /\ txns[b].table_lock_set = {<<"X", 0>>}
             /\ InQueue(b, "X", 0, TRUE))

====
